---- MODULE Spec2Model ----
(***************************************************************************)
(* Model of the t402 Python clients.                                       *)
(*                                                                         *)
(* The requests adapter (t402HTTPAdapter.send): the client retry state     *)
(* machine that turns a 402 response into one paid retry.  Several logical *)
(* requests go through ONE shared adapter instance; each call of send is a *)
(* process whose steps interleave with the other calls.                    *)
(*                                                                         *)
(* The WDK signer (wdk/signer.py) with its chain and token tables          *)
(* (wdk/chains.py): construction, initialization, the guarded methods and  *)
(* the balance queries; the pure functions are applied to bounded inputs.  *)
(*                                                                         *)
(* The ERC-4337 helpers: UnifiedPaymaster.get_paymaster_data and           *)
(* GenericBundlerClient.wait_for_receipt, each as the steps of its loop.   *)
(*                                                                         *)
(* Each component has its own variables and its own specification; the     *)
(* variables of the other components stay at their initial values.         *)
(***************************************************************************)
EXTENDS Integers, Sequences, FiniteSets, TLC

\* Number of calls of send issued through the shared adapter.
NumCalls == 2

Calls == 1..NumCalls

---------------------------------------------------------------------------
\* Values

\* A header that is not present in a header dictionary.
Absent == [kind |-> "absent"]

Literal(text) == [kind |-> "literal", text |-> text]

HeaderNames == {"X-Payment", "Access-Control-Expose-Headers", "Accept"}

\* The PreparedRequest objects the application sends: one plain GET, and one
\* POST with a body that already carries its own X-Payment and
\* Access-Control-Expose-Headers values.
RequestInputs ==
    { [method |-> "GET", url |-> "/resource", body |-> "",
       headers |-> ("X-Payment" :> Absent
                    @@ "Access-Control-Expose-Headers" :> Absent
                    @@ "Accept" :> Literal("*/*"))],
      [method |-> "POST", url |-> "/resource", body |-> "payload",
       headers |-> ("X-Payment" :> Literal("set-by-caller")
                    @@ "Access-Control-Expose-Headers" :> Literal("set-by-caller")
                    @@ "Accept" :> Literal("application/json"))] }

NoRequest == [method |-> "none"]

\* PaymentRequirements entries a server may list in accepts.
ReqCheap == [scheme |-> "exact", network |-> "base-sepolia", maxAmountRequired |-> 1000]
ReqDear == [scheme |-> "exact", network |-> "base-sepolia", maxAmountRequired |-> 2000]
ReqOther == [scheme |-> "upto", network |-> "base-sepolia", maxAmountRequired |-> 1000]

NoRequirements == [scheme |-> "none"]

\* Response bodies.  json says whether the bytes decode as a JSON object, keys
\* are the members of that object, accepts the value of its accepts member.
BodyOk == [json |-> FALSE, keys |-> {}, t402Version |-> 0, accepts |-> <<>>]
BodyNoAccepts == [json |-> TRUE, keys |-> {"error"}, t402Version |-> 0, accepts |-> <<>>]
BodyNoMatch ==
    [json |-> TRUE, keys |-> {"t402Version", "accepts", "error"},
     t402Version |-> 1, accepts |-> <<ReqOther, ReqDear>>]
BodyMatch ==
    [json |-> TRUE, keys |-> {"t402Version", "accepts", "error"},
     t402Version |-> 1, accepts |-> <<ReqDear, ReqCheap>>]

Response(status, hdrs, content) ==
    [status_code |-> status, headers |-> hdrs, content |-> content]

NoResponse == [status_code |-> 0]

\* What the server may answer to an outbound request.
Responses ==
    { Response(200, "plain", BodyOk),
      Response(200, "x-payment-response", BodyOk),
      Response(500, "plain", BodyOk),
      Response(402, "plain", BodyOk),
      Response(402, "plain", BodyNoAccepts),
      Response(402, "plain", BodyNoMatch),
      Response(402, "plain", BodyMatch) }

\* Exceptions: the class name and the class name of __cause__.
Exc(type, cause) == [type |-> type, cause |-> cause]

NoError == [type |-> "none", cause |-> "none"]

ConnectionError == Exc("ConnectionError", "none")

\* What one call of HTTPAdapter.send (the transport) ends with.
TransportOutcomes ==
    { [kind |-> "response", response |-> r] : r \in Responses }
    \cup { [kind |-> "error", error |-> ConnectionError] }

NoHeader == [kind |-> "none"]

NoResult == [kind |-> "none"]
Returned(r) == [kind |-> "returned", response |-> r]
Raised(e) == [kind |-> "raised", error |-> e]

---------------------------------------------------------------------------
\* Collaborators of the adapter

\* Classes derived from PaymentError.
IsPaymentError(e) == e.type \in {"PaymentError", "SelectionError"}

\* json.loads followed by t402PaymentRequiredResponse(**data): succeeds when
\* the body is a JSON object with every required member.
ParsesAsPaymentRequired(content) ==
    content.json /\ {"t402Version", "accepts", "error"} \subseteq content.keys

\* The exception the parse raises: json.loads rejects bytes that are not
\* JSON, the model constructor rejects an object with a member missing.
ParseError(content) ==
    IF content.json THEN Exc("ValidationError", "none")
    ELSE Exc("JSONDecodeError", "none")

\* What a failed selection may raise: an error derived from PaymentError, or
\* one that is not.
SelectionFailures == {Exc("SelectionError", "none"), Exc("ValueError", "none")}

\* What a failed payload construction or signing raises.
SigningFailed == Exc("SigningFailed", "none")

\* The client's constraints: registered schemes and the largest amount.
Qualifies(r) == r.scheme = "exact" /\ r.maxAmountRequired <= 1500

\* First-match selection in server order; NoRequirements when none qualifies
\* (the selector then raises).
RECURSIVE select_payment_requirements(_)
select_payment_requirements(accepts) ==
    IF accepts = <<>> THEN NoRequirements
    ELSE IF Qualifies(Head(accepts)) THEN Head(accepts)
    ELSE select_payment_requirements(Tail(accepts))

\* The encoded payment payload; every payload carries a fresh nonce.
create_payment_header(requirements, version, n) ==
    [kind |-> "payment", requirements |-> requirements,
     t402_version |-> version, nonce |-> n]

---------------------------------------------------------------------------
\* State

VARIABLES
    is_retry,        \* the adapter's _is_retry field, shared by all calls
    pc,              \* where each call of send stands
    branch,          \* which way each call left the test of _is_retry
    original,        \* the request as the application passed it to send
    request,         \* the request object of each call (send mutates it)
    response,        \* local response of each call
    selected,        \* local selected_requirements of each call
    payment_header,  \* local payment_header of each call
    handled,         \* how often each call ran requirement selection
    caught,          \* the exception an except clause of each call caught
    result,          \* what each call returned or raised
    wire,            \* per call, the outbound requests and their outcomes
    nonces           \* number of payment payloads created so far

vars == <<is_retry, pc, branch, original, request, response, selected,
          payment_header, handled, caught, result, wire, nonces>>

locals == <<branch, original, request, response, selected, payment_header,
            handled, caught, result, wire, nonces>>

Init ==
    /\ is_retry = FALSE
    /\ pc = [c \in Calls |-> "idle"]
    /\ branch = [c \in Calls |-> "none"]
    /\ original = [c \in Calls |-> NoRequest]
    /\ request = [c \in Calls |-> NoRequest]
    /\ response = [c \in Calls |-> NoResponse]
    /\ selected = [c \in Calls |-> NoRequirements]
    /\ payment_header = [c \in Calls |-> NoHeader]
    /\ handled = [c \in Calls |-> 0]
    /\ caught = [c \in Calls |-> NoError]
    /\ result = [c \in Calls |-> NoResult]
    /\ wire = [c \in Calls |-> <<>>]
    /\ nonces = 0

\* super().send(request): the request goes out as it is now and the
\* transport ends with outcome o.
Transmit(c, o) ==
    wire' = [wire EXCEPT ![c] = Append(@, [request |-> request[c], outcome |-> o])]

---------------------------------------------------------------------------
\* Steps of send

\* The application calls send(request).
Start(c) ==
    /\ pc[c] = "idle"
    /\ \E r \in RequestInputs :
        /\ original' = [original EXCEPT ![c] = r]
        /\ request' = [request EXCEPT ![c] = r]
    /\ pc' = [pc EXCEPT ![c] = "enter"]
    /\ UNCHANGED <<is_retry, branch, response, selected, payment_header,
                   handled, caught, result, wire, nonces>>

\* if self._is_retry:
CheckRetryFlag(c) ==
    /\ pc[c] = "enter"
    /\ branch' = [branch EXCEPT ![c] = IF is_retry THEN "passthrough" ELSE "normal"]
    /\ pc' = [pc EXCEPT ![c] = IF is_retry THEN "reset" ELSE "send"]
    /\ UNCHANGED <<is_retry, original, request, response, selected,
                   payment_header, handled, caught, result, wire, nonces>>

\* self._is_retry = False
ResetRetryFlag(c) ==
    /\ pc[c] = "reset"
    /\ is_retry' = FALSE
    /\ pc' = [pc EXCEPT ![c] = "passthrough"]
    /\ UNCHANGED locals

\* return super().send(request, **kwargs)
PassThroughSend(c) ==
    /\ pc[c] = "passthrough"
    /\ \E o \in TransportOutcomes :
        /\ Transmit(c, o)
        /\ result' = [result EXCEPT ![c] =
                        IF o.kind = "error" THEN Raised(o.error)
                        ELSE Returned(o.response)]
    /\ pc' = [pc EXCEPT ![c] = "done"]
    /\ UNCHANGED <<is_retry, branch, original, request, response, selected,
                   payment_header, handled, caught, nonces>>

\* FirstSend with the status test written as "== 200": every other status
\* is taken for a payment request.
FirstSend_Only200Returns(c) ==
    /\ pc[c] = "send"
    /\ \E o \in TransportOutcomes :
        /\ Transmit(c, o)
        /\ IF o.kind = "error"
           THEN /\ result' = [result EXCEPT ![c] = Raised(o.error)]
                /\ pc' = [pc EXCEPT ![c] = "done"]
                /\ UNCHANGED response
           ELSE IF o.response.status_code = 200
           THEN /\ result' = [result EXCEPT ![c] = Returned(o.response)]
                /\ pc' = [pc EXCEPT ![c] = "done"]
                /\ response' = [response EXCEPT ![c] = o.response]
           ELSE /\ response' = [response EXCEPT ![c] = o.response]
                /\ pc' = [pc EXCEPT ![c] = "handle402"]
                /\ UNCHANGED result
    /\ UNCHANGED <<is_retry, branch, original, request, selected,
                   payment_header, handled, caught, nonces>>

\* response = super().send(request, **kwargs), then the test of status_code.
FirstSend(c) ==
    /\ pc[c] = "send"
    /\ \E o \in TransportOutcomes :
        /\ Transmit(c, o)
        /\ IF o.kind = "error"
           THEN /\ result' = [result EXCEPT ![c] = Raised(o.error)]
                /\ pc' = [pc EXCEPT ![c] = "done"]
                /\ UNCHANGED response
           ELSE IF o.response.status_code # 402
           THEN /\ result' = [result EXCEPT ![c] = Returned(o.response)]
                /\ pc' = [pc EXCEPT ![c] = "done"]
                /\ response' = [response EXCEPT ![c] = o.response]
           ELSE /\ response' = [response EXCEPT ![c] = o.response]
                /\ pc' = [pc EXCEPT ![c] = "handle402"]
                /\ UNCHANGED result
    /\ UNCHANGED <<is_retry, branch, original, request, selected,
                   payment_header, handled, caught, nonces>>

\* Variants of the except clauses with one defect each.
\* The failure is answered with the response instead of an exception.
ExceptHandler_ReturnsResponse(c, e) ==
    /\ is_retry' = FALSE
    /\ caught' = [caught EXCEPT ![c] = e]
    /\ result' = [result EXCEPT ![c] = Returned(response[c])]
    /\ pc' = [pc EXCEPT ![c] = "done"]

\* The clause for PaymentError is missing: everything is wrapped.
ExceptHandler_WrapsAll(c, e) ==
    /\ is_retry' = FALSE
    /\ caught' = [caught EXCEPT ![c] = e]
    /\ result' = [result EXCEPT ![c] = Raised(Exc("PaymentError", e.type))]
    /\ pc' = [pc EXCEPT ![c] = "done"]

\* A bare raise: the exception leaves as it came.
ExceptHandler_RaisesUnwrapped(c, e) ==
    /\ is_retry' = FALSE
    /\ caught' = [caught EXCEPT ![c] = e]
    /\ result' = [result EXCEPT ![c] = Raised(e)]
    /\ pc' = [pc EXCEPT ![c] = "done"]

\* A failure before the retry is swallowed and the retry goes ahead.
ExceptHandler_SwallowsAndContinues(c, e) ==
    /\ is_retry' = FALSE
    /\ caught' = [caught EXCEPT ![c] = e]
    /\ IF pc[c] = "handle402"
       THEN /\ pc' = [pc EXCEPT ![c] = "mark"]
            /\ UNCHANGED result
       ELSE /\ pc' = [pc EXCEPT ![c] = "done"]
            /\ result' = [result EXCEPT ![c] =
                    Raised(IF IsPaymentError(e) THEN e
                           ELSE Exc("PaymentError", e.type))]

\* The flag is left as it is.
ExceptHandler_LeavesFlag(c, e) ==
    /\ UNCHANGED is_retry
    /\ caught' = [caught EXCEPT ![c] = e]
    /\ result' = [result EXCEPT ![c] =
                    Raised(IF IsPaymentError(e) THEN e
                           ELSE Exc("PaymentError", e.type))]
    /\ pc' = [pc EXCEPT ![c] = "done"]

\* The two except clauses: reset the flag, re-raise a PaymentError as it is
\* and raise any other exception wrapped in a PaymentError.
ExceptHandler(c, e) ==
    /\ is_retry' = FALSE
    /\ caught' = [caught EXCEPT ![c] = e]
    /\ result' = [result EXCEPT ![c] =
                    Raised(IF IsPaymentError(e) THEN e
                           ELSE Exc("PaymentError", e.type))]
    /\ pc' = [pc EXCEPT ![c] = "done"]

\* The try block up to the creation of the payment header: parse the body,
\* select the requirements, create the header.
HandlePaymentRequired(c) ==
    /\ pc[c] = "handle402"
    /\ LET content == response[c].content
           sel == select_payment_requirements(content.accepts)
       IN IF ~ParsesAsPaymentRequired(content)
          THEN /\ ExceptHandler(c, ParseError(content))
               /\ UNCHANGED <<selected, payment_header, handled, nonces>>
          ELSE IF sel = NoRequirements
          THEN /\ \E e \in SelectionFailures : ExceptHandler(c, e)
               /\ handled' = [handled EXCEPT ![c] = @ + 1]
               /\ UNCHANGED <<selected, payment_header, nonces>>
          ELSE \/ /\ ExceptHandler(c, SigningFailed)
                  /\ selected' = [selected EXCEPT ![c] = sel]
                  /\ handled' = [handled EXCEPT ![c] = @ + 1]
                  /\ UNCHANGED <<payment_header, nonces>>
               \/ /\ selected' = [selected EXCEPT ![c] = sel]
                  /\ handled' = [handled EXCEPT ![c] = @ + 1]
                  /\ nonces' = nonces + 1
                  /\ payment_header' = [payment_header EXCEPT ![c] =
                        create_payment_header(sel, content.t402Version, nonces + 1)]
                  /\ pc' = [pc EXCEPT ![c] = "mark"]
                  /\ UNCHANGED <<is_retry, caught, result>>
    /\ UNCHANGED <<branch, original, request, response, wire>>

\* MarkRetry that builds a new header dictionary for the retry instead of
\* adding to the request's own.
MarkRetry_ReplacesHeaders(c) ==
    /\ pc[c] = "mark"
    /\ is_retry' = TRUE
    /\ request' = [request EXCEPT ![c].headers =
            [h \in HeaderNames |->
                IF h = "X-Payment" THEN payment_header[c]
                ELSE IF h = "Access-Control-Expose-Headers"
                THEN Literal("X-Payment-Response")
                ELSE Absent]]
    /\ pc' = [pc EXCEPT ![c] = "retry"]
    /\ UNCHANGED <<branch, original, response, selected, payment_header,
                   handled, caught, result, wire, nonces>>

\* self._is_retry = True and the two header assignments.
MarkRetry(c) ==
    /\ pc[c] = "mark"
    /\ is_retry' = TRUE
    /\ request' = [request EXCEPT ![c].headers =
            [@ EXCEPT !["X-Payment"] = payment_header[c],
                      !["Access-Control-Expose-Headers"] = Literal("X-Payment-Response")]]
    /\ pc' = [pc EXCEPT ![c] = "retry"]
    /\ UNCHANGED <<branch, original, response, selected, payment_header,
                   handled, caught, result, wire, nonces>>

\* RetrySend that negotiates again when the retried response is 402 (here
\* stopped after a third request).
RetrySend_RetriesAgainOn402(c) ==
    /\ pc[c] = "retry"
    /\ \E o \in TransportOutcomes :
        /\ Transmit(c, o)
        /\ IF o.kind = "error"
           THEN /\ ExceptHandler(c, o.error)
                /\ UNCHANGED response
           ELSE /\ response' = [response EXCEPT ![c] =
                        [status_code |-> o.response.status_code,
                         headers |-> o.response.headers,
                         content |-> o.response.content]]
                /\ IF o.response.status_code = 402 /\ Len(wire[c]) < 2
                   THEN /\ pc' = [pc EXCEPT ![c] = "handle402"]
                        /\ UNCHANGED result
                   ELSE /\ result' = [result EXCEPT ![c] = Returned(response'[c])]
                        /\ pc' = [pc EXCEPT ![c] = "done"]
                /\ UNCHANGED <<is_retry, caught>>
    /\ UNCHANGED <<branch, original, request, selected, payment_header,
                   handled, nonces>>

\* RetrySend that sends the paid request once more after a transport error.
RetrySend_ResendsOnError(c) ==
    /\ pc[c] = "retry"
    /\ \E o \in TransportOutcomes :
        /\ Transmit(c, o)
        /\ IF o.kind = "error" /\ Len(wire[c]) < 2
           THEN UNCHANGED <<is_retry, caught, result, pc, response>>
           ELSE IF o.kind = "error"
           THEN /\ ExceptHandler(c, o.error)
                /\ UNCHANGED response
           ELSE /\ response' = [response EXCEPT ![c] =
                        [status_code |-> o.response.status_code,
                         headers |-> o.response.headers,
                         content |-> o.response.content]]
                /\ result' = [result EXCEPT ![c] = Returned(response'[c])]
                /\ pc' = [pc EXCEPT ![c] = "done"]
                /\ UNCHANGED <<is_retry, caught>>
    /\ UNCHANGED <<branch, original, request, selected, payment_header,
                   handled, nonces>>

\* retry_response = super().send(request, **kwargs); the retry response's
\* data is copied into response, which is returned.
RetrySend(c) ==
    /\ pc[c] = "retry"
    /\ \E o \in TransportOutcomes :
        /\ Transmit(c, o)
        /\ IF o.kind = "error"
           THEN /\ ExceptHandler(c, o.error)
                /\ UNCHANGED response
           ELSE /\ response' = [response EXCEPT ![c] =
                        [status_code |-> o.response.status_code,
                         headers |-> o.response.headers,
                         content |-> o.response.content]]
                /\ result' = [result EXCEPT ![c] = Returned(response'[c])]
                /\ pc' = [pc EXCEPT ![c] = "done"]
                /\ UNCHANGED <<is_retry, caught>>
    /\ UNCHANGED <<branch, original, request, selected, payment_header,
                   handled, nonces>>

\* One step of a call that has started.
Step(c) ==
    \/ CheckRetryFlag(c)
    \/ ResetRetryFlag(c)
    \/ PassThroughSend(c)
    \/ FirstSend(c)
    \/ HandlePaymentRequired(c)
    \/ MarkRetry(c)
    \/ RetrySend(c)

AtRest == \A c \in Calls : pc[c] \in {"idle", "done"}

\* The application sends the next request only after the previous send ended.
SeqStart(c) == AtRest /\ Start(c)

----------------------------------------------------------------------------
\* The other components of the repository: the WDK signer, the module-level
\* functions of the WDK, the unified paymaster and the bundler client. They
\* share nothing with the adapter; each has its own specification further
\* down and stands still while another component runs.

VARIABLES
    signer,          \* the WDKSigner object, NoSigner before it is constructed
    signer_call,     \* the last call on the signer: what it was, what it gave
    rpc_nodes,       \* how the RPC nodes of the chains answer the signer
    fn_call,         \* the last application of a module-level function
    pm_list,         \* UnifiedPaymaster.paymasters, each with what it will do
    pm_pc,           \* where get_paymaster_data stands
    pm_i,            \* position of the for loop in the list
    pm_last_error,   \* local last_error of get_paymaster_data
    pm_called,       \* the paymasters called so far, in call order
    pm_result,       \* what get_paymaster_data returned or raised
    now,             \* time.time(), in ticks
    wr_pc,           \* where wait_for_receipt stands
    wr_timeout,      \* argument timeout of wait_for_receipt
    wr_interval,     \* argument polling_interval of wait_for_receipt
    wr_deadline,     \* local deadline of wait_for_receipt
    wr_last_poll,    \* the latest poll: when it started, what the bundler said
    wr_result        \* what wait_for_receipt returned or raised

signer_vars == <<signer, signer_call, rpc_nodes>>

fn_vars == <<fn_call>>

pm_vars == <<pm_list, pm_pc, pm_i, pm_last_error, pm_called, pm_result>>

wr_vars == <<now, wr_pc, wr_timeout, wr_interval, wr_deadline, wr_last_poll,
             wr_result>>

all_vars == <<vars, signer_vars, fn_vars, pm_vars, wr_vars>>

\* Python's None.
None == [kind |-> "None"]

NoSigner == [kind |-> "no signer"]

NoCall == [op |-> "none"]

\* A value returned by a function or method.
Value(v) == [kind |-> "returned", value |-> v]

\* No signer yet; every node answers.
SignerInit ==
    /\ signer = NoSigner
    /\ signer_call = NoCall
    /\ rpc_nodes = [native |-> [ok |-> TRUE, balance |-> 7],
                    usdt0 |-> [ok |-> TRUE, balance |-> 2],
                    usdc |-> [ok |-> TRUE, balance |-> 3],
                    usdt |-> [ok |-> TRUE, balance |-> 4],
                    down |-> {}]

FnInit == fn_call = NoCall

PaymasterInit ==
    /\ pm_list = <<>>
    /\ pm_pc = "idle"
    /\ pm_i = 0
    /\ pm_last_error = None
    /\ pm_called = <<>>
    /\ pm_result = NoResult

ReceiptInit ==
    /\ now = 0
    /\ wr_pc = "idle"
    /\ wr_timeout = None
    /\ wr_interval = 0
    /\ wr_deadline = None
    /\ wr_last_poll = None
    /\ wr_result = NoResult

\* Every component in its state after construction, before any call.
ModelInit == Init /\ SignerInit /\ FnInit /\ PaymasterInit /\ ReceiptInit

----------------------------------------------------------------------------
\* Specifications of the adapter

Next ==
    \E c \in Calls :
        \/ Start(c) /\ UNCHANGED <<signer_vars, fn_vars, pm_vars, wr_vars>>
        \/ Step(c) /\ UNCHANGED <<signer_vars, fn_vars, pm_vars, wr_vars>>

NextSeq ==
    \E c \in Calls :
        \/ SeqStart(c) /\ UNCHANGED <<signer_vars, fn_vars, pm_vars, wr_vars>>
        \/ Step(c) /\ UNCHANGED <<signer_vars, fn_vars, pm_vars, wr_vars>>

\* Requests issued concurrently through one shared adapter.
Spec ==
    /\ ModelInit
    /\ [][Next]_all_vars

\* Requests issued one after the other through one adapter.
SeqSpec ==
    /\ ModelInit
    /\ [][NextSeq]_all_vars

\* Every started call keeps running: threads are scheduled and the transport
\* answers or fails.
FairSpec == Spec /\ \A c \in Calls : WF_vars(Step(c))

---------------------------------------------------------------------------
\* Observations used by the properties

Done(c) == pc[c] = "done"

\* The outcome of the i-th outbound request of call c.
Outcome(c, i) == wire[c][i].outcome

Is402(o) == o.kind = "response" /\ o.response.status_code = 402

WellFormed402(o) == Is402(o) /\ ParsesAsPaymentRequired(o.response.content)

\* The payment headers the adapter has created so far.
CreatedHeaders == { payment_header[c] : c \in Calls } \ {NoHeader}

\* The first response of call c is a 402 whose body does not parse.
Unparseable402(c) ==
    /\ Len(wire[c]) >= 1
    /\ Is402(Outcome(c, 1))
    /\ ~ParsesAsPaymentRequired(Outcome(c, 1).response.content)

\* The first response of call c is a well-formed 402 with no qualifying entry.
NoMatch402(c) ==
    /\ Len(wire[c]) >= 1
    /\ WellFormed402(Outcome(c, 1))
    /\ select_payment_requirements(Outcome(c, 1).response.content.accepts)
         = NoRequirements

\* The paid retry of call c ended with a transport error.
RetryFailed(c) == Len(wire[c]) >= 2 /\ Outcome(c, 2).kind = "error"

\* An upper bound on the steps call c still has to take.
Rank(c) ==
    CASE pc[c] = "idle" -> 6
      [] pc[c] = "enter" -> 5
      [] pc[c] = "send" -> 4
      [] pc[c] = "handle402" -> 3
      [] pc[c] = "mark" -> 2
      [] pc[c] = "reset" -> 2
      [] pc[c] = "retry" -> 1
      [] pc[c] = "passthrough" -> 1
      [] OTHER -> 0

---------------------------------------------------------------------------
\* C1: one call of send issues at most two outbound requests (the original
\* and at most one paid retry); when the retried response is again 402 the
\* call has ended and returned that 402 response without a further request;
\* and every call of send ends: a call that has started and not ended can
\* always take a step, and each of its steps brings it strictly nearer to
\* its end while no step of another call takes it further away.
C1_AtMostOneRetry ==
    /\ [](\A c \in Calls :
            /\ Len(wire[c]) <= 2
            /\ (Len(wire[c]) = 2 /\ Is402(Outcome(c, 2)))
                 => /\ Done(c)
                    /\ result[c] = Returned(Outcome(c, 2).response)
            /\ (pc[c] \notin {"idle", "done"}) => ENABLED Step(c))
    /\ [][\A c \in Calls :
            /\ Rank(c)' <= Rank(c)
            /\ (pc'[c] # pc[c] \/ wire'[c] # wire[c]) => Rank(c)' < Rank(c)]_vars

\* The same termination stated as liveness under FairSpec.
EverySendEnds == \A c \in Calls : (pc[c] # "idle") ~> Done(c)

\* A call whose paid retry was answered with 402 again and that returned it.
C1_Witness ==
    \E c \in Calls :
        /\ Done(c)
        /\ Len(wire[c]) = 2
        /\ Is402(Outcome(c, 1))
        /\ Is402(Outcome(c, 2))
        /\ result[c].kind = "returned"
        /\ result[c].response.status_code = 402

\* C2: under every interleaving of the calls issued through the shared
\* adapter, a call whose first response is a well-formed 402 runs payment
\* handling exactly once, and no call finds the retry flag set by another
\* call when it enters send.
C2_PaymentHandledExactlyOnce ==
    \A c \in Calls :
        /\ branch[c] # "passthrough"
        /\ (Done(c) /\ WellFormed402(Outcome(c, 1))) => handled[c] = 1

\* C3: whenever no call of send is in progress the adapter carries no retry
\* state, and every call made one after the other whose first response is a
\* well-formed 402 ran payment handling, as it would on a fresh adapter.
C3_NoRetryStateAtRest ==
    /\ AtRest => ~is_retry
    /\ \A c \in Calls :
        (Done(c) /\ WellFormed402(Outcome(c, 1))) => handled[c] = 1

\* C4: when the first response of a call has a status other than 402, the
\* call has ended returning exactly that response; no requirement was
\* selected, no payment header created, the request is as the application
\* passed it and it went out once.
C4_Non402ReturnedUnchanged ==
    \A c \in Calls :
        (Len(wire[c]) >= 1 /\ Outcome(c, 1).kind = "response"
                           /\ Outcome(c, 1).response.status_code # 402)
        => /\ Done(c)
           /\ result[c] = Returned(Outcome(c, 1).response)
           /\ selected[c] = NoRequirements
           /\ payment_header[c] = NoHeader
           /\ handled[c] = 0
           /\ request[c] = original[c]
           /\ Len(wire[c]) = 1
           /\ wire[c][1].request = original[c]

\* A call on the payment-handling path whose first response was a 500.
C4_Witness ==
    \E c \in Calls :
        /\ Done(c)
        /\ branch[c] = "normal"
        /\ Outcome(c, 1).kind = "response"
        /\ Outcome(c, 1).response.status_code = 500
        /\ result[c] = Returned(Outcome(c, 1).response)

\* C5 as stated: when the first response is a 402 whose body does not parse,
\* the call returns that 402 response and sends no retry.
C5_Original402Surfaced ==
    \A c \in Calls :
        (Done(c) /\ Unparseable402(c))
        => /\ result[c] = Returned(Outcome(c, 1).response)
           /\ Len(wire[c]) = 1

\* C5 amended: when the first response is a 402 whose body does not parse,
\* no requirement is selected, no payment header is created and no retry is
\* sent; a call that entered payment handling raises PaymentError caused by
\* the parse error instead of returning the 402, and a call that found the
\* retry flag set on entry returns the 402 unchanged.
C5_MalformedRaisesPaymentError ==
    \A c \in Calls :
        Unparseable402(c)
        => /\ Len(wire[c]) = 1
           /\ selected[c] = NoRequirements
           /\ payment_header[c] = NoHeader
           /\ (Done(c) /\ branch[c] = "normal")
                => result[c] = Raised(Exc("PaymentError",
                        ParseError(Outcome(c, 1).response.content).type))
           /\ (Done(c) /\ branch[c] = "passthrough")
                => result[c] = Returned(Outcome(c, 1).response)

\* A call that entered payment handling and raised on an unparseable 402.
C5_Witness ==
    \E c \in Calls :
        /\ Done(c)
        /\ Unparseable402(c)
        /\ branch[c] = "normal"
        /\ result[c].kind = "raised"
        /\ result[c].error.cause = "JSONDecodeError"

\* C6 as stated: when the first response is a well-formed 402 with no
\* qualifying entry, the call returns that 402 response and sends no retry.
C6_Original402Surfaced ==
    \A c \in Calls :
        (Done(c) /\ NoMatch402(c))
        => /\ result[c] = Returned(Outcome(c, 1).response)
           /\ Len(wire[c]) = 1

\* C6 amended: when the first response is a well-formed 402 with no
\* qualifying entry, no payment header is created and no retry is sent; a
\* call that entered payment handling raises a PaymentError instead of
\* returning the 402 (the selector's own error when that is a PaymentError,
\* otherwise a PaymentError caused by it), and a call that found the retry
\* flag set on entry returns the 402 unchanged.
C6_NoMatchRaisesPaymentError ==
    \A c \in Calls :
        NoMatch402(c)
        => /\ Len(wire[c]) = 1
           /\ payment_header[c] = NoHeader
           /\ (Done(c) /\ branch[c] = "normal")
                => /\ caught[c] \in SelectionFailures
                   /\ result[c].kind = "raised"
                   /\ IsPaymentError(result[c].error)
                   /\ result[c] = Raised(IF IsPaymentError(caught[c])
                                         THEN caught[c]
                                         ELSE Exc("PaymentError", caught[c].type))
           /\ (Done(c) /\ branch[c] = "passthrough")
                => result[c] = Returned(Outcome(c, 1).response)

\* A call whose selection failed with the selector's PaymentError.
C6_Witness ==
    \E c \in Calls :
        /\ Done(c)
        /\ NoMatch402(c)
        /\ branch[c] = "normal"
        /\ result[c] = Raised(Exc("SelectionError", "none"))

\* C7 as stated: the retried request is the original request and differs
\* from it only by the X-Payment header, whose value is the created header.
C7_OnlyXPaymentAdded ==
    \A c \in Calls :
        Len(wire[c]) >= 2
        => wire[c][2].request =
             [original[c] EXCEPT !.headers["X-Payment"] = payment_header[c]]

\* C7 amended: the retried request has the method, URL and body of the
\* original and every header of the original other than X-Payment and
\* Access-Control-Expose-Headers with its value unchanged; X-Payment is set
\* to the header created for the selected requirement and
\* Access-Control-Expose-Headers is set to "X-Payment-Response", each
\* replacing a value the application had given.
C7_RetryIsOriginalPlusTwoHeaders ==
    \A c \in Calls :
        Len(wire[c]) >= 2
        => LET r == wire[c][2].request
               o == original[c]
               doc == Outcome(c, 1).response.content
           IN /\ r.method = o.method
              /\ r.url = o.url
              /\ r.body = o.body
              /\ DOMAIN r.headers = DOMAIN o.headers
              /\ \A h \in DOMAIN o.headers
                        \ {"X-Payment", "Access-Control-Expose-Headers"} :
                    r.headers[h] = o.headers[h]
              /\ r.headers["X-Payment"] = payment_header[c]
              /\ payment_header[c].kind = "payment"
              /\ payment_header[c].requirements = selected[c]
              /\ selected[c] = select_payment_requirements(doc.accepts)
              /\ payment_header[c].t402_version = doc.t402Version
              /\ r.headers["Access-Control-Expose-Headers"]
                    = Literal("X-Payment-Response")

\* A retried POST whose own X-Payment value was replaced.
C7_Witness ==
    \E c \in Calls :
        /\ Len(wire[c]) = 2
        /\ original[c].method = "POST"
        /\ original[c].headers["X-Payment"] = Literal("set-by-caller")
        /\ wire[c][2].request.headers["X-Payment"] = payment_header[c]

C9_RetryErrorUnmodified ==
    \A c \in Calls :
        /\ Len(wire[c]) <= 2
        /\ (Done(c) /\ RetryFailed(c)) => result[c] = Raised(Outcome(c, 2).error)

\* C9 amended: the paid retry goes out at most once whatever its outcome,
\* and an error raised while sending it ends the call with a PaymentError
\* whose cause is that error (an error of the first send, which is outside
\* the try block, reaches the application as it is).
C9_RetryErrorWrapped ==
    \A c \in Calls :
        /\ Len(wire[c]) <= 2
        /\ RetryFailed(c)
            => /\ Done(c)
               /\ caught[c] = Outcome(c, 2).error
               /\ result[c] = Raised(Exc("PaymentError", Outcome(c, 2).error.type))
        /\ (Len(wire[c]) = 1 /\ Outcome(c, 1).kind = "error")
            => /\ Done(c)
               /\ result[c] = Raised(Outcome(c, 1).error)

\* A call whose paid retry failed in the transport.
C9_Witness ==
    \E c \in Calls :
        /\ Done(c)
        /\ RetryFailed(c)
        /\ result[c].kind = "raised"

\* C10: when requirement selection or the creation of the payment header
\* fails, the call has ended by raising, exactly one request (the original)
\* went out for it and that request carried no payment header of the
\* adapter.
C10_NegotiationErrorsNotRetried ==
    \A c \in Calls :
        (caught[c] \in SelectionFailures \/ caught[c] = SigningFailed)
        => /\ Done(c)
           /\ result[c].kind = "raised"
           /\ IsPaymentError(result[c].error)
           /\ Len(wire[c]) = 1
           /\ wire[c][1].request = original[c]
           /\ wire[c][1].request.headers["X-Payment"] \notin CreatedHeaders
           /\ payment_header[c] = NoHeader

\* A call whose header creation failed after a successful selection.
C10_Witness ==
    \E c \in Calls :
        /\ Done(c)
        /\ caught[c] = SigningFailed
        /\ selected[c] = ReqCheap
        /\ result[c] = Raised(Exc("PaymentError", "SigningFailed"))

\* C11: when the first response of a call is a well-formed 402 with a
\* selectable requirement (and neither the creation of the header nor the
\* transport fails), the call has created a payment header, sent exactly one
\* retry and returned a response with the status code, headers and content
\* of the retry response.
C11_CallerSeesRetriedResponse ==
    \A c \in Calls :
        (/\ Done(c)
         /\ WellFormed402(Outcome(c, 1))
         /\ select_payment_requirements(Outcome(c, 1).response.content.accepts)
              # NoRequirements
         /\ caught[c] = NoError)
        => /\ payment_header[c] # NoHeader
           /\ Len(wire[c]) = 2
           /\ Outcome(c, 2).kind = "response"
           /\ result[c] = Returned(Outcome(c, 2).response)

----------------------------------------------------------------------------
\* WDK chain tables (wdk/chains.py). A Python dict is a sequence of
\* <<key, value>> pairs with distinct keys, in insertion order.

RECURSIVE DictGet(_, _, _)
\* dict.get(key, default): the value stored under key, else default.
DictGet(dict, key, default) ==
    IF dict = <<>> THEN default
    ELSE IF Head(dict)[1] = key THEN Head(dict)[2]
    ELSE DictGet(Tail(dict), key, default)

DictKeys(dict) == [i \in 1..Len(dict) |-> dict[i][1]]

DictHas(dict, key) == \E i \in 1..Len(dict) : dict[i][1] = key

\* A CAIP-2 network id "namespace:reference".
Caip2(namespace, reference) ==
    [namespace |-> namespace, reference |-> reference]

ChainConfig(chain_id, network, name, rpc_url, network_type) ==
    [chain_id |-> chain_id, network |-> network, name |-> name,
     rpc_url |-> rpc_url, network_type |-> network_type]

DEFAULT_CHAINS ==
    << <<"ethereum", ChainConfig(1, Caip2("eip155", 1), "ethereum",
                                 "https://eth.drpc.org", "evm")>>,
       <<"arbitrum", ChainConfig(42161, Caip2("eip155", 42161), "arbitrum",
                                 "https://arb1.arbitrum.io/rpc", "evm")>>,
       <<"base", ChainConfig(8453, Caip2("eip155", 8453), "base",
                             "https://mainnet.base.org", "evm")>>,
       <<"ink", ChainConfig(57073, Caip2("eip155", 57073), "ink",
                            "https://rpc-gel.inkonchain.com", "evm")>>,
       <<"berachain", ChainConfig(80094, Caip2("eip155", 80094), "berachain",
                                  "https://rpc.berachain.com", "evm")>>,
       <<"polygon", ChainConfig(137, Caip2("eip155", 137), "polygon",
                                "https://polygon-rpc.com", "evm")>>,
       <<"arbitrum-sepolia",
         ChainConfig(421614, Caip2("eip155", 421614), "arbitrum-sepolia",
                     "https://sepolia-rollup.arbitrum.io/rpc", "evm")>>,
       <<"base-sepolia",
         ChainConfig(84532, Caip2("eip155", 84532), "base-sepolia",
                     "https://sepolia.base.org", "evm")>> >>

USDT0_ADDRESSES ==
    << <<"ethereum", "0x6C96dE32CEa08842dcc4058c14d3aaAD7Fa41dee">>,
       <<"arbitrum", "0xFd086bC7CD5C481DCC9C85ebE478A1C0b69FCbb9">>,
       <<"ink", "0x0200C29006150606B650577BBE7B6248F58470c1">>,
       <<"berachain", "0x779Ded0c9e1022225f8E0630b35a9b54bE713736">>,
       <<"unichain", "0x588ce4F028D8e7B53B687865d6A67b3A54C75518">> >>

USDC_ADDRESSES ==
    << <<"ethereum", "0xA0b86991c6218b36c1d19D4a2e9Eb0cE3606eB48">>,
       <<"arbitrum", "0xaf88d065e77c8cC2239327C5EDb3A432268e5831">>,
       <<"base", "0x833589fCD6eDb6E08f4c7C32D4f71b54bdA02913">>,
       <<"polygon", "0x3c499c542cEF5E3811e1192ce70d8cC03d5c3359">> >>

USDT_LEGACY_ADDRESSES ==
    << <<"ethereum", "0xdAC17F958D2ee523a2206206994597C13D831ec7">>,
       <<"polygon", "0xc2132D05D31c914a87C6611C10748AEb04B58e8F">> >>

TokenInfo(address, symbol, name, decimals, supports_eip3009) ==
    [address |-> address, symbol |-> symbol, name |-> name,
     decimals |-> decimals, supports_eip3009 |-> supports_eip3009]

Usdt0Token(chain) ==
    TokenInfo(DictGet(USDT0_ADDRESSES, chain, None), "USDT0", "TetherToken",
              6, TRUE)

UsdcToken(chain) ==
    TokenInfo(DictGet(USDC_ADDRESSES, chain, None), "USDC", "USD Coin",
              6, TRUE)

UsdtLegacyToken(chain) ==
    TokenInfo(DictGet(USDT_LEGACY_ADDRESSES, chain, None), "USDT",
              "Tether USD", 6, FALSE)

CHAIN_TOKENS ==
    << <<"ethereum", <<Usdt0Token("ethereum"), UsdcToken("ethereum"),
                       UsdtLegacyToken("ethereum")>> >>,
       <<"arbitrum", <<Usdt0Token("arbitrum"), UsdcToken("arbitrum")>> >>,
       <<"base", <<UsdcToken("base")>> >>,
       <<"ink", <<Usdt0Token("ink")>> >>,
       <<"berachain", <<Usdt0Token("berachain")>> >>,
       <<"polygon", <<UsdcToken("polygon"), UsdtLegacyToken("polygon")>> >> >>

get_chain_config(chain) == DictGet(DEFAULT_CHAINS, chain, None)

\* A get_chain_id that ignores the table.
get_chain_id_AlwaysDefault(chain) == 1

get_chain_id(chain) ==
    LET config == DictGet(DEFAULT_CHAINS, chain, None)
    IN  IF config # None THEN config.chain_id ELSE 1

get_network_from_chain(chain) ==
    LET config == DictGet(DEFAULT_CHAINS, chain, None)
    IN  IF config # None THEN config.network ELSE Caip2("eip155", 1)

RECURSIVE FirstChainWithNetwork(_, _)
\* The for loop of get_chain_from_network over DEFAULT_CHAINS.items().
FirstChainWithNetwork(items, network) ==
    IF items = <<>> THEN None
    ELSE IF Head(items)[2].network = network THEN Head(items)[1]
    ELSE FirstChainWithNetwork(Tail(items), network)

get_chain_from_network(network) ==
    FirstChainWithNetwork(DEFAULT_CHAINS, network)

get_usdt0_chains == DictKeys(USDT0_ADDRESSES)

get_chain_tokens(chain) == DictGet(CHAIN_TOKENS, chain, <<>>)

RECURSIVE FirstWithSymbol(_, _)
\* The inner for loop of get_preferred_token: the first token of the list
\* with the symbol, None when the loop ends without one.
FirstWithSymbol(tokens, symbol) ==
    IF tokens = <<>> THEN None
    ELSE IF Head(tokens).symbol = symbol THEN Head(tokens)
    ELSE FirstWithSymbol(Tail(tokens), symbol)

\* A priority list with USDC before USDT0.
PreferredSymbols_UsdcFirst == <<"USDC", "USDT0">>

\* The priority list of get_preferred_token.
PreferredSymbols == <<"USDT0", "USDC">>

RECURSIVE FirstPreferred(_, _)
\* The outer for loop of get_preferred_token over the priority list; the
\* first token of the list when no priority symbol is found.
FirstPreferred(tokens, priority) ==
    IF priority = <<>> THEN tokens[1]
    ELSE IF FirstWithSymbol(tokens, Head(priority)) # None
         THEN FirstWithSymbol(tokens, Head(priority))
    ELSE FirstPreferred(tokens, Tail(priority))

\* get_preferred_token, as a function of the chain's token list.
PreferredOf(tokens) ==
    IF tokens = <<>> THEN None ELSE FirstPreferred(tokens, PreferredSymbols)

get_preferred_token(chain) == PreferredOf(get_chain_tokens(chain))

\* str.upper() on the symbols that occur.
Upper(symbol) ==
    CASE symbol = "usdt0" -> "USDT0"
      [] symbol = "usdc" -> "USDC"
      [] symbol = "usdt" -> "USDT"
      [] OTHER -> symbol

RECURSIVE FirstAddressOf(_, _)
\* The for loop of get_token_address.
FirstAddressOf(tokens, symbol) ==
    IF tokens = <<>> THEN None
    ELSE IF Upper(Head(tokens).symbol) = Upper(symbol)
         THEN Head(tokens).address
    ELSE FirstAddressOf(Tail(tokens), symbol)

get_token_address(chain, symbol) ==
    FirstAddressOf(get_chain_tokens(chain), symbol)

----------------------------------------------------------------------------
\* Python strings (wdk/signer.py). A str is the sequence of its characters.

Str(chars) == [kind |-> "str", chars |-> chars]

DigitChars == <<"0", "1", "2", "3", "4", "5", "6", "7", "8", "9">>

RECURSIVE DecimalDigits(_)
\* str(n) of an int n >= 0.
DecimalDigits(n) ==
    IF n < 10 THEN <<DigitChars[n + 1]>>
    ELSE DecimalDigits(n \div 10) \o <<DigitChars[(n % 10) + 1]>>

RECURSIVE ZFill(_, _)
\* str.zfill(width) of a string of digits.
ZFill(chars, width) ==
    IF Len(chars) >= width THEN chars ELSE ZFill(<<"0">> \o chars, width)

RECURSIVE RStrip(_, _)
\* str.rstrip(ch): the trailing run of ch removed.
RStrip(chars, ch) ==
    IF chars # <<>> /\ chars[Len(chars)] = ch
    THEN RStrip(SubSeq(chars, 1, Len(chars) - 1), ch)
    ELSE chars

IsSpace(ch) == ch \in {" ", "\t", "\n"}

RECURSIVE Strip(_)
\* str.strip(): leading and trailing whitespace removed.
Strip(chars) ==
    IF chars # <<>> /\ IsSpace(Head(chars)) THEN Strip(Tail(chars))
    ELSE IF chars # <<>> /\ IsSpace(chars[Len(chars)])
         THEN Strip(SubSeq(chars, 1, Len(chars) - 1))
    ELSE chars

RECURSIVE Split(_, _)
\* str.split(): the maximal runs of characters that are not whitespace.
\* word is the run being read.
Split(chars, word) ==
    IF chars = <<>> THEN (IF word = <<>> THEN <<>> ELSE <<word>>)
    ELSE IF IsSpace(Head(chars))
         THEN (IF word = <<>> THEN <<>> ELSE <<word>>)
              \o Split(Tail(chars), <<>>)
    ELSE Split(Tail(chars), Append(word, Head(chars)))

\* The word counts of a BIP-39 mnemonic.
MnemonicLengths == {12, 15, 18, 21, 24}

\* A validation that accepts every phrase of twelve words or more.
validate_seed_phrase_AtLeastTwelve(seed_phrase) ==
    Len(Split(Strip(seed_phrase.chars), <<>>)) >= 12

\* validate_seed_phrase: seed_phrase is a str.
validate_seed_phrase(seed_phrase) ==
    LET words == Split(Strip(seed_phrase.chars), <<>>)
    IN  Len(words) \in MnemonicLengths

\* 10 ** n.
RECURSIVE Pow10(_)
Pow10(n) == IF n = 0 THEN 1 ELSE 10 * Pow10(n - 1)

\* A format_token_amount that leaves out zfill.
format_token_amount_NoZeroFill(amount, decimals) ==
    IF amount = 0 THEN Str(<<"0">>)
    ELSE LET divisor == Pow10(decimals)
             whole == amount \div divisor
             fraction == amount % divisor
         IN  IF fraction = 0 THEN Str(DecimalDigits(whole))
             ELSE Str(DecimalDigits(whole) \o <<".">>
                      \o RStrip(DecimalDigits(fraction), "0"))

format_token_amount(amount, decimals) ==
    IF amount = 0 THEN Str(<<"0">>)
    ELSE LET divisor == Pow10(decimals)
             whole == amount \div divisor
             fraction == amount % divisor
         IN  IF fraction = 0 THEN Str(DecimalDigits(whole))
             ELSE LET fraction_str ==
                          RStrip(ZFill(DecimalDigits(fraction), decimals),
                                 "0")
                  IN  Str(DecimalDigits(whole) \o <<".">> \o fraction_str)

----------------------------------------------------------------------------
\* ERC-4337 types (erc4337/types.py). A Python int n >= 0 is the sequence of
\* its hexadecimal digits (values 0..15), most significant first and without
\* leading zeros, so that 128-bit values keep their width; bytes is a
\* sequence of values 0..255.

Zeros(n) == [i \in 1..n |-> 0]

RECURSIVE StripZeros(_)
StripZeros(digits) ==
    IF digits # <<>> /\ Head(digits) = 0 THEN StripZeros(Tail(digits))
    ELSE digits

OverflowError == Exc("OverflowError", "none")

\* An int.to_bytes that keeps the low bytes of a value that does not fit.
int_to_bytes_Truncating(n, length) ==
    LET padded == Zeros(2 * length) \o n
        low == SubSeq(padded, Len(padded) - 2 * length + 1, Len(padded))
    IN  Value([i \in 1..length |-> low[2 * i - 1] * 16 + low[2 * i]])

\* n.to_bytes(length, 'big')
int_to_bytes(n, length) ==
    IF Len(n) > 2 * length THEN Raised(OverflowError)
    ELSE LET padded == Zeros(2 * length - Len(n)) \o n
         IN  Value([i \in 1..length |->
                        padded[2 * i - 1] * 16 + padded[2 * i]])

\* int.from_bytes(bytes, 'big')
int_from_bytes(bytes) ==
    StripZeros([k \in 1..(2 * Len(bytes)) |->
                    IF k % 2 = 1 THEN bytes[(k + 1) \div 2] \div 16
                    ELSE bytes[k \div 2] % 16])

\* The slices bytes[:n] and bytes[n:].
SliceTo(bytes, n) ==
    SubSeq(bytes, 1, IF n < Len(bytes) THEN n ELSE Len(bytes))

SliceFrom(bytes, n) == SubSeq(bytes, n + 1, Len(bytes))

\* The concatenation of two 16-byte fields, or the exception of the first
\* field that does not fit.
PackedPair(first, second) ==
    LET first_bytes == int_to_bytes(first, 16)
        second_bytes == int_to_bytes(second, 16)
    IN  IF first_bytes.kind = "raised" THEN first_bytes
        ELSE IF second_bytes.kind = "raised" THEN second_bytes
        ELSE Value(first_bytes.value \o second_bytes.value)

UnpackedPair(packed) ==
    <<int_from_bytes(SliceTo(packed, 16)),
      int_from_bytes(SliceFrom(packed, 16))>>

pack_account_gas_limits(verification_gas_limit, call_gas_limit) ==
    PackedPair(verification_gas_limit, call_gas_limit)

unpack_account_gas_limits(packed) == UnpackedPair(packed)

pack_gas_fees(max_priority_fee_per_gas, max_fee_per_gas) ==
    PackedPair(max_priority_fee_per_gas, max_fee_per_gas)

unpack_gas_fees(packed) == UnpackedPair(packed)

\* Hexadecimal text. The characters that int(text, 16) and bytes.fromhex
\* accept as digits, with their values.
HexChars ==
    << <<"0", 0>>, <<"1", 1>>, <<"2", 2>>, <<"3", 3>>, <<"4", 4>>,
       <<"5", 5>>, <<"6", 6>>, <<"7", 7>>, <<"8", 8>>, <<"9", 9>>,
       <<"a", 10>>, <<"b", 11>>, <<"c", 12>>, <<"d", 13>>, <<"e", 14>>,
       <<"f", 15>>, <<"A", 10>>, <<"B", 11>>, <<"C", 12>>, <<"D", 13>>,
       <<"E", 14>>, <<"F", 15>> >>

IsHexText(chars) == \A i \in 1..Len(chars) : DictHas(HexChars, chars[i])

HexValue(ch) == DictGet(HexChars, ch, 0)

ValueError == Exc("ValueError", "none")

\* bytes.fromhex(text)
bytes_fromhex(chars) ==
    IF Len(chars) % 2 = 1 \/ ~IsHexText(chars) THEN Raised(ValueError)
    ELSE Value([i \in 1..(Len(chars) \div 2) |->
                    HexValue(chars[2 * i - 1]) * 16 + HexValue(chars[2 * i])])

\* bytes.hex()
bytes_hex(bytes) ==
    [k \in 1..(2 * Len(bytes)) |->
        HexChars[(IF k % 2 = 1 THEN bytes[(k + 1) \div 2] \div 16
                  ELSE bytes[k \div 2] % 16) + 1][1]]

\* int(text, 16): an optional 0x prefix, then at least one digit.
int_base16(chars) ==
    LET digits == IF Len(chars) >= 2 /\ chars[1] = "0"
                     /\ chars[2] \in {"x", "X"}
                  THEN SubSeq(chars, 3, Len(chars)) ELSE chars
    IN  IF digits = <<>> \/ ~IsHexText(digits) THEN Raised(ValueError)
        ELSE Value(StripZeros([i \in 1..Len(digits) |-> HexValue(digits[i])]))

\* 50000, the default of both gas limits of PaymasterData.
DefaultPaymasterGasLimit == <<12, 3, 5, 0>>

PaymasterData(paymaster, paymaster_verification_gas_limit, paymaster_post_op_gas_limit, paymaster_data) ==
    [kind |-> "PaymasterData", paymaster |-> paymaster,
     paymaster_verification_gas_limit |-> paymaster_verification_gas_limit,
     paymaster_post_op_gas_limit |-> paymaster_post_op_gas_limit,
     paymaster_data |-> paymaster_data]

\* PaymasterData.to_bytes()
PaymasterData_to_bytes(self) ==
    LET paymaster_bytes ==
            bytes_fromhex(SliceFrom(self.paymaster.chars, 2))
        verification_bytes ==
            int_to_bytes(self.paymaster_verification_gas_limit, 16)
        post_op_bytes == int_to_bytes(self.paymaster_post_op_gas_limit, 16)
    IN  IF paymaster_bytes.kind = "raised" THEN paymaster_bytes
        ELSE IF verification_bytes.kind = "raised" THEN verification_bytes
        ELSE IF post_op_bytes.kind = "raised" THEN post_op_bytes
        ELSE Value(paymaster_bytes.value \o verification_bytes.value
                     \o post_op_bytes.value \o self.paymaster_data)

\* A key that a JSON result object does not have.
Missing == [kind |-> "missing"]

\* dict.get(key, default) on the member found under key.
GetOr(member, default) == IF member = Missing THEN default ELSE member

Truthy(text) == text # None /\ text.chars # <<>>

InvalidPaymasterResponse == Exc("PaymasterError", "none")

\* _parse_paymaster_response(result) of PimlicoPaymaster, BiconomyPaymaster
\* and StackupPaymaster, which have the same body.
parse_paymaster_response(rpc_result) ==
    LET paymaster_and_data == GetOr(rpc_result.paymasterAndData,
                                    Str(<<"0", "x">>))
        verification ==
            int_base16(GetOr(rpc_result.paymasterVerificationGasLimit,
                             Str(<<"0", "x", "0">>)).chars)
        post_op ==
            int_base16(GetOr(rpc_result.paymasterPostOpGasLimit,
                             Str(<<"0", "x", "0">>)).chars)
        separate_data ==
            IF Truthy(GetOr(rpc_result.paymasterData, None))
            THEN bytes_fromhex(SliceFrom(rpc_result.paymasterData.chars, 2))
            ELSE Value(<<>>)
        data == bytes_fromhex(SliceFrom(paymaster_and_data.chars, 2))
    IN  IF Truthy(GetOr(rpc_result.paymaster, None))
        THEN IF verification.kind = "raised" THEN verification
             ELSE IF post_op.kind = "raised" THEN post_op
             ELSE IF separate_data.kind = "raised" THEN separate_data
             ELSE Value(PaymasterData(rpc_result.paymaster, verification.value,
                                      post_op.value, separate_data.value))
        ELSE IF Truthy(paymaster_and_data)
                /\ paymaster_and_data # Str(<<"0", "x">>)
        THEN IF data.kind = "raised" THEN data
             ELSE IF Len(data.value) >= 20
             THEN Value(PaymasterData(
                      Str(<<"0", "x">> \o bytes_hex(SliceTo(data.value, 20))),
                      DefaultPaymasterGasLimit, DefaultPaymasterGasLimit,
                      SliceFrom(data.value, 20)))
             ELSE Raised(InvalidPaymasterResponse)
        ELSE Raised(InvalidPaymasterResponse)

\* The paymaster data that AlchemyBundlerClient
\* .request_gas_and_paymaster_and_data reads from result: a PaymasterData or
\* None.
alchemy_paymaster_data(rpc_result) ==
    LET paymaster_and_data == GetOr(rpc_result.paymasterAndData,
                                    Str(<<"0", "x">>))
        chars == paymaster_and_data.chars
        verification == int_base16(SubSeq(chars, 43, 74))
        post_op == int_base16(SubSeq(chars, 75, 106))
        data == IF Len(chars) > 106 THEN bytes_fromhex(SliceFrom(chars, 106))
                ELSE Value(<<>>)
    IN  IF Truthy(paymaster_and_data)
           /\ paymaster_and_data # Str(<<"0", "x">>)
           /\ Len(chars) >= 106
        THEN IF verification.kind = "raised" THEN verification
             ELSE IF post_op.kind = "raised" THEN post_op
             ELSE IF data.kind = "raised" THEN data
             ELSE Value(PaymasterData(Str(<<"0", "x">> \o SubSeq(chars, 3, 42)),
                                      verification.value, post_op.value,
                                      data.value))
        ELSE Value(None)

Providers == {"pimlico", "biconomy", "stackup", "alchemy"}

\* pm_data as the provider's client parses it from result, and
\* pm_data.to_bytes() for user_op.paymaster_and_data.
paymaster_and_data_of(provider, rpc_result) ==
    LET pm_data == IF provider = "alchemy" THEN alchemy_paymaster_data(rpc_result)
                   ELSE parse_paymaster_response(rpc_result)
    IN  [pm_data |-> pm_data,
         bytes |-> IF pm_data.kind = "returned" /\ pm_data.value # None
                   THEN PaymasterData_to_bytes(pm_data.value)
                   ELSE NoResult]

----------------------------------------------------------------------------
\* The module-level functions of the WDK applied to arguments

\* Largest atomic amount and largest number of decimals formatted.
MaxAmount == 120

MaxDecimals == 3

\* Largest number of words of a seed phrase.
MaxWords == 25

\* Largest number of tokens listed for a chain.
MaxTokens == 3

\* The words of the phrases: one and two characters long in turn.
Word(i) == IF i % 2 = 1 THEN <<"a">> ELSE <<"b", "c">>

RECURSIVE Joined(_, _)
\* The first k words with sep between two neighbours.
Joined(k, sep) ==
    IF k = 0 THEN <<>>
    ELSE IF k = 1 THEN Word(1)
    ELSE Joined(k - 1, sep) \o sep \o Word(k)

SeedPhrases ==
    { Str(lead \o Joined(k, sep) \o trail) :
        k \in 0..MaxWords,
        lead \in {<<>>, <<" ">>},
        sep \in {<<" ">>, <<" ", "\t">>},
        trail \in {<<>>, <<"\n">>} }

ChainInputs ==
    {DEFAULT_CHAINS[i][1] : i \in 1..Len(DEFAULT_CHAINS)}
        \cup {"unichain", "solana"}

NetworkInputs ==
    {DEFAULT_CHAINS[i][2].network : i \in 1..Len(DEFAULT_CHAINS)}
        \cup {Caip2("eip155", 10), Caip2("solana", 101)}

\* Tokens a chain may list: the three kinds of the table and one other.
ListedTokens ==
    { Usdt0Token("ethereum"), UsdcToken("ethereum"),
      UsdtLegacyToken("ethereum"),
      TokenInfo("0x6B175474E89094C44Da98b954EedeAC495271d0F", "DAI",
                "Dai Stablecoin", 18, FALSE) }

TokenListings == UNION {[1..n -> ListedTokens] : n \in 0..MaxTokens}

\* A function was applied to args and returned value. The functions keep no
\* state, so one application per behaviour reaches every state that a
\* sequence of applications reaches.
Applied(op, args, value) == [op |-> op, args |-> args, value |-> value]

ValidateSeedPhrase(seed_phrase) ==
    /\ fn_call = NoCall
    /\ fn_call' = Applied("validate_seed_phrase", <<seed_phrase>>,
                    validate_seed_phrase(seed_phrase))
    /\ UNCHANGED <<vars, signer_vars, pm_vars, wr_vars>>

FormatTokenAmount(amount, decimals) ==
    /\ fn_call = NoCall
    /\ fn_call' = Applied("format_token_amount", <<amount, decimals>>,
                    format_token_amount(amount, decimals))
    /\ UNCHANGED <<vars, signer_vars, pm_vars, wr_vars>>

GetChainConfig(chain) ==
    /\ fn_call = NoCall
    /\ fn_call' = Applied("get_chain_config", <<chain>>, get_chain_config(chain))
    /\ UNCHANGED <<vars, signer_vars, pm_vars, wr_vars>>

GetChainId(chain) ==
    /\ fn_call = NoCall
    /\ fn_call' = Applied("get_chain_id", <<chain>>, get_chain_id(chain))
    /\ UNCHANGED <<vars, signer_vars, pm_vars, wr_vars>>

GetNetworkFromChain(chain) ==
    /\ fn_call = NoCall
    /\ fn_call' = Applied("get_network_from_chain", <<chain>>,
                    get_network_from_chain(chain))
    /\ UNCHANGED <<vars, signer_vars, pm_vars, wr_vars>>

GetChainFromNetwork(network) ==
    /\ fn_call = NoCall
    /\ fn_call' = Applied("get_chain_from_network", <<network>>,
                    get_chain_from_network(network))
    /\ UNCHANGED <<vars, signer_vars, pm_vars, wr_vars>>

\* get_preferred_token on a chain of the table or on no chain of it.
GetPreferredToken(chain) ==
    /\ fn_call = NoCall
    /\ fn_call' = Applied("get_preferred_token", <<get_chain_tokens(chain)>>,
                    get_preferred_token(chain))
    /\ UNCHANGED <<vars, signer_vars, pm_vars, wr_vars>>

\* get_preferred_token on a chain that CHAIN_TOKENS lists with tokens.
GetPreferredTokenOfListing(tokens) ==
    /\ fn_call = NoCall
    /\ fn_call' = Applied("get_preferred_token", <<tokens>>, PreferredOf(tokens))
    /\ UNCHANGED <<vars, signer_vars, pm_vars, wr_vars>>

\* Gas limits and fees: 0, 1, 0xff, 0x100, 150000, 2^127, 2^128 - 1, and the
\* values 2^128 and 2^128 + 1 that do not fit 16 bytes.
GasValues ==
    { <<>>, <<1>>, <<15, 15>>, <<1, 0, 0>>, <<2, 4, 9, 15, 0>>,
      <<8>> \o Zeros(31), [i \in 1..32 |-> 15],
      <<1>> \o Zeros(32), <<1>> \o Zeros(31) \o <<1>> }

\* The 32-byte values that packing the gas values gives.
PackedValues ==
    {PackedPair(x, y).value :
        <<x, y>> \in {p \in GasValues \X GasValues :
                         PackedPair(p[1], p[2]).kind = "returned"}}

PackAccountGasLimits(verification_gas_limit, call_gas_limit) ==
    /\ fn_call = NoCall
    /\ fn_call' = Applied("pack_account_gas_limits",
                    <<verification_gas_limit, call_gas_limit>>,
                    pack_account_gas_limits(verification_gas_limit,
                                            call_gas_limit))
    /\ UNCHANGED <<vars, signer_vars, pm_vars, wr_vars>>

UnpackAccountGasLimits(packed) ==
    /\ fn_call = NoCall
    /\ fn_call' = Applied("unpack_account_gas_limits", <<packed>>,
                    unpack_account_gas_limits(packed))
    /\ UNCHANGED <<vars, signer_vars, pm_vars, wr_vars>>

PackGasFees(max_priority_fee_per_gas, max_fee_per_gas) ==
    /\ fn_call = NoCall
    /\ fn_call' = Applied("pack_gas_fees",
                    <<max_priority_fee_per_gas, max_fee_per_gas>>,
                    pack_gas_fees(max_priority_fee_per_gas, max_fee_per_gas))
    /\ UNCHANGED <<vars, signer_vars, pm_vars, wr_vars>>

UnpackGasFees(packed) ==
    /\ fn_call = NoCall
    /\ fn_call' = Applied("unpack_gas_fees", <<packed>>,
                    unpack_gas_fees(packed))
    /\ UNCHANGED <<vars, signer_vars, pm_vars, wr_vars>>

GetUsdt0Chains ==
    /\ fn_call = NoCall
    /\ fn_call' = Applied("get_usdt0_chains", <<>>, get_usdt0_chains)
    /\ UNCHANGED <<vars, signer_vars, pm_vars, wr_vars>>

GetChainTokens(chain) ==
    /\ fn_call = NoCall
    /\ fn_call' = Applied("get_chain_tokens", <<chain>>,
                    get_chain_tokens(chain))
    /\ UNCHANGED <<vars, signer_vars, pm_vars, wr_vars>>

\* Some bytes of a given length.
SampleBytes(n) == [i \in 1..n |-> (i * 37 + 11) % 256]

UpperHex(chars) ==
    [i \in 1..Len(chars) |->
        CASE chars[i] = "a" -> "A" [] chars[i] = "b" -> "B"
          [] chars[i] = "c" -> "C" [] chars[i] = "d" -> "D"
          [] chars[i] = "e" -> "E" [] chars[i] = "f" -> "F"
          [] OTHER -> chars[i]]

HexText(bytes) == Str(<<"0", "x">> \o bytes_hex(bytes))

\* A result object with paymasterAndData only.
PackedResult(paymaster_and_data) ==
    [paymaster |-> Missing, paymasterVerificationGasLimit |-> Missing,
     paymasterPostOpGasLimit |-> Missing, paymasterData |-> Missing,
     paymasterAndData |-> paymaster_and_data]

\* The results of a paymaster RPC: without paymasterAndData, with an empty
\* one, with packed data of 19, 20, 21, 52, 53 and 60 bytes, with a paymaster,
\* two gas limits of 50000 and 4 bytes of data, with upper-case digits, with
\* an odd number of digits, and with the separate fields of v0.7.
PaymasterResults ==
    {PackedResult(Missing), PackedResult(Str(<<"0", "x">>))}
    \cup {PackedResult(HexText(SampleBytes(n))) : n \in {19, 20, 21, 52, 53, 60}}
    \cup {PackedResult(HexText(SampleBytes(20)
                               \o int_to_bytes(DefaultPaymasterGasLimit, 16).value
                               \o int_to_bytes(DefaultPaymasterGasLimit, 16).value
                               \o SampleBytes(4)))}
    \cup {PackedResult(Str(<<"0", "x">> \o UpperHex(bytes_hex(SampleBytes(53)))))}
    \cup {PackedResult(Str(<<"0", "x">> \o bytes_hex(SampleBytes(n)) \o <<"a">>))
              : n \in {20, 52}}
    \cup {[paymaster |-> HexText(SampleBytes(20)),
           paymasterVerificationGasLimit |-> Str(<<"0", "x", "c", "3", "5", "0">>),
           paymasterPostOpGasLimit |-> Str(<<"0", "x", "1", "0">>),
           paymasterData |-> HexText(SampleBytes(3)),
           paymasterAndData |-> Missing]}

\* pm_data = the provider's reading of rpc_result;
\* user_op.paymaster_and_data = pm_data.to_bytes()
PaymasterAndData(provider, rpc_result) ==
    /\ fn_call = NoCall
    /\ fn_call' = Applied("paymaster_and_data", <<provider, rpc_result>>,
                    paymaster_and_data_of(provider, rpc_result))
    /\ UNCHANGED <<vars, signer_vars, pm_vars, wr_vars>>

FnNext ==
    \/ \E p \in SeedPhrases : ValidateSeedPhrase(p)
    \/ \E a \in 0..MaxAmount, d \in 0..MaxDecimals : FormatTokenAmount(a, d)
    \/ \E chain \in ChainInputs : GetChainConfig(chain)
    \/ \E chain \in ChainInputs : GetChainId(chain)
    \/ \E chain \in ChainInputs : GetNetworkFromChain(chain)
    \/ \E network \in NetworkInputs : GetChainFromNetwork(network)
    \/ \E chain \in ChainInputs : GetPreferredToken(chain)
    \/ \E tokens \in TokenListings : GetPreferredTokenOfListing(tokens)
    \/ GetUsdt0Chains
    \/ \E chain \in ChainInputs : GetChainTokens(chain)
    \/ \E x \in GasValues, y \in GasValues : PackAccountGasLimits(x, y)
    \/ \E packed \in PackedValues : UnpackAccountGasLimits(packed)
    \/ \E x \in GasValues, y \in GasValues : PackGasFees(x, y)
    \/ \E packed \in PackedValues : UnpackGasFees(packed)
    \/ \E provider \in Providers, rpc_result \in PaymasterResults :
           PaymasterAndData(provider, rpc_result)

\* Any one of the functions applied to any of its inputs.
FnSpec ==
    /\ ModelInit
    /\ [][FnNext]_all_vars

----------------------------------------------------------------------------
\* Claims about the module-level functions

\* The number a string of decimal digits denotes.
RECURSIVE NumberOf(_)
NumberOf(chars) ==
    IF chars = <<>> THEN 0
    ELSE 10 * NumberOf(SubSeq(chars, 1, Len(chars) - 1))
         + (CHOOSE n \in 0..9 : DigitChars[n + 1] = chars[Len(chars)])

\* Where the decimal point of a text stands (0: nowhere).
PointAt(chars) ==
    IF \E i \in 1..Len(chars) : chars[i] = "."
    THEN CHOOSE i \in 1..Len(chars) : chars[i] = "." ELSE 0

WholePart(chars) ==
    IF PointAt(chars) = 0 THEN chars ELSE SubSeq(chars, 1, PointAt(chars) - 1)

FractionPart(chars) ==
    IF PointAt(chars) = 0 THEN <<>>
    ELSE SubSeq(chars, PointAt(chars) + 1, Len(chars))

\* The atomic amount a decimal text denotes at the given number of decimals.
AtomicAmount(chars, decimals) ==
    NumberOf(WholePart(chars)) * Pow10(decimals)
        + NumberOf(FractionPart(chars))
            * Pow10(decimals - Len(FractionPart(chars)))

\* C15: format_token_amount(a, d) is the exact decimal text of a / 10^d:
\* "0" for a = 0, the whole part without a decimal point when a is a multiple
\* of 10^d, otherwise whole "." fraction where the fraction has at most d
\* digits, no trailing zero and, filled up with zeros on the right, is
\* a mod 10^d written with d digits; reading the text back at d decimals
\* gives a, and no other amount has the same text.
C15_FormatIsExactDecimal ==
    fn_call.op = "format_token_amount" =>
        LET a == fn_call.args[1]
            d == fn_call.args[2]
            text == fn_call.value.chars
        IN  /\ a = 0 => text = <<"0">>
            /\ a % Pow10(d) = 0 =>
                 /\ PointAt(text) = 0
                 /\ text = DecimalDigits(a \div Pow10(d))
            /\ a % Pow10(d) # 0 =>
                 /\ PointAt(text) > 0
                 /\ WholePart(text) = DecimalDigits(a \div Pow10(d))
                 /\ FractionPart(text) # <<>>
                 /\ Len(FractionPart(text)) <= d
                 /\ \A i \in 1..Len(FractionPart(text)) :
                        FractionPart(text)[i] # "."
                 /\ FractionPart(text)[Len(FractionPart(text))] # "0"
                 /\ NumberOf(FractionPart(text))
                      * Pow10(d - Len(FractionPart(text))) = a % Pow10(d)
            /\ AtomicAmount(text, d) = a
            /\ \A b \in 0..MaxAmount :
                 b # a => format_token_amount(b, d) # fn_call.value

\* 50 atomic units at 3 decimals are "0.05": the fraction 50 is filled to
\* "050" and loses its trailing zero.
C15_Witness ==
    /\ fn_call.op = "format_token_amount"
    /\ fn_call.args = <<50, 3>>
    /\ fn_call.value = Str(<<"0", ".", "0", "5">>)

IsDefaultChain(chain) == DictHas(DEFAULT_CHAINS, chain)

\* C16: on DEFAULT_CHAINS the lookups by name and by network id are inverse:
\* get_chain_from_network of the network id of chain c is c, get_chain_id(c)
\* is the reference of c's eip155 network id, and an unknown chain has no
\* configuration and an unknown network no chain.
C16_ChainNetworkInverse ==
    /\ fn_call.op = "get_chain_from_network" =>
         /\ \A c \in ChainInputs :
                (IsDefaultChain(c)
                 /\ fn_call.args = <<get_network_from_chain(c)>>)
                => fn_call.value = c
         /\ (\A c \in ChainInputs :
                IsDefaultChain(c)
                => fn_call.args # <<get_chain_config(c).network>>)
            => fn_call.value = None
    /\ (fn_call.op = "get_chain_id" /\ IsDefaultChain(fn_call.args[1])) =>
         /\ get_network_from_chain(fn_call.args[1]).namespace = "eip155"
         /\ fn_call.value = get_network_from_chain(fn_call.args[1]).reference
    /\ (fn_call.op = "get_chain_config" /\ ~IsDefaultChain(fn_call.args[1]))
         => fn_call.value = None

\* The network id of arbitrum was looked up and gave arbitrum back.
C16_Witness ==
    /\ fn_call.op = "get_chain_from_network"
    /\ fn_call.args = <<get_network_from_chain("arbitrum")>>
    /\ fn_call.args = <<Caip2("eip155", 42161)>>
    /\ fn_call.value = "arbitrum"

Lists(tokens, symbol) ==
    \E i \in 1..Len(tokens) : tokens[i].symbol = symbol

FitsSixteenBytes(n) == Len(n) <= 32

\* bytes is the big-endian representation of the int n: its p-th hexadecimal
\* digit from the right is the p-th digit of n from the right, 0 beyond the
\* digits of n.
Denotes(bytes, n) ==
    /\ Len(n) <= 2 * Len(bytes)
    /\ \A p \in 1..(2 * Len(bytes)) :
           LET byte == bytes[Len(bytes) - ((p - 1) \div 2)]
               digit == IF p % 2 = 1 THEN byte % 16 ELSE byte \div 16
           IN  digit = (IF p <= Len(n) THEN n[Len(n) - p + 1] ELSE 0)

\* C21: for x, y below 2^128, pack_account_gas_limits(x, y) and
\* pack_gas_fees(x, y) return 32 bytes, the first 16 being x and the last 16
\* being y in big-endian order, and unpack_account_gas_limits and
\* unpack_gas_fees return (x, y) from such bytes; when x or y is 2^128 or
\* more, packing raises and returns no bytes.
C21_GasPackingRoundTrips ==
    /\ fn_call.op \in {"pack_account_gas_limits", "pack_gas_fees"} =>
         LET x == fn_call.args[1]
             y == fn_call.args[2]
         IN  IF FitsSixteenBytes(x) /\ FitsSixteenBytes(y)
             THEN /\ fn_call.value.kind = "returned"
                  /\ Len(fn_call.value.value) = 32
                  /\ Denotes(SubSeq(fn_call.value.value, 1, 16), x)
                  /\ Denotes(SubSeq(fn_call.value.value, 17, 32), y)
             ELSE /\ fn_call.value.kind = "raised"
                  /\ fn_call.value.error = OverflowError
    /\ fn_call.op \in {"unpack_account_gas_limits", "unpack_gas_fees"} =>
         /\ Len(fn_call.args[1]) = 32
         /\ Denotes(SubSeq(fn_call.args[1], 1, 16), fn_call.value[1])
         /\ Denotes(SubSeq(fn_call.args[1], 17, 32), fn_call.value[2])
         /\ \A x \in GasValues, y \in GasValues :
                (/\ Denotes(SubSeq(fn_call.args[1], 1, 16), x)
                 /\ Denotes(SubSeq(fn_call.args[1], 17, 32), y))
                => fn_call.value = <<x, y>>

\* 2^128 - 1 and 1 came back from the 32 bytes 0xff..ff 00..01.
C21_Witness ==
    /\ fn_call.op = "unpack_gas_fees"
    /\ fn_call.args[1][1] = 255
    /\ fn_call.args[1][16] = 255
    /\ fn_call.args[1][17] = 0
    /\ fn_call.args[1][32] = 1
    /\ fn_call.value = <<[i \in 1..32 |-> 15], <<1>>>>

\* 2^128 was rejected as a gas limit.
C21_WitnessRejected ==
    /\ fn_call.op = "pack_account_gas_limits"
    /\ fn_call.args = <<<<1>> \o Zeros(32), <<1>>>>
    /\ fn_call.value = Raised(OverflowError)

\* The tokens listed for the chain include one with symbol USDT0 at the
\* chain's address of USDT0_ADDRESSES.
ListsUsdt0(chain) ==
    \E i \in 1..Len(get_chain_tokens(chain)) :
        /\ get_chain_tokens(chain)[i].symbol = "USDT0"
        /\ get_chain_tokens(chain)[i].address
             = DictGet(USDT0_ADDRESSES, chain, "")

\* C28: every chain that get_usdt0_chains returns has a chain configuration
\* and lists a token with symbol USDT0 at its address of USDT0_ADDRESSES, and
\* every chain with a token list in CHAIN_TOKENS is a key of DEFAULT_CHAINS.
C28_ChainTablesConsistent ==
    /\ fn_call.op = "get_usdt0_chains" =>
         \A i \in 1..Len(fn_call.value) :
             /\ get_chain_config(fn_call.value[i]) # None
             /\ ListsUsdt0(fn_call.value[i])
    /\ \A i \in 1..Len(CHAIN_TOKENS) :
           DictHas(DEFAULT_CHAINS, CHAIN_TOKENS[i][1])

\* What the tables do satisfy: every chain with a token list is a default
\* chain, every chain that get_usdt0_chains returns and that is a default
\* chain lists its USDT0 token, and the only chain that get_usdt0_chains
\* returns without a configuration and without tokens is unichain.
ChainTablesButUnichain ==
    /\ \A i \in 1..Len(CHAIN_TOKENS) :
           DictHas(DEFAULT_CHAINS, CHAIN_TOKENS[i][1])
    /\ fn_call.op = "get_usdt0_chains" =>
         \A i \in 1..Len(fn_call.value) :
             IF fn_call.value[i] = "unichain"
             THEN /\ get_chain_config("unichain") = None
                  /\ get_chain_tokens("unichain") = <<>>
             ELSE /\ get_chain_config(fn_call.value[i]) # None
                  /\ ListsUsdt0(fn_call.value[i])

\* The result that was read from a packed paymasterAndData: the separate
\* paymaster field is not used.
ReadFromPacked(provider, rpc_result) ==
    provider = "alchemy" \/ ~Truthy(GetOr(rpc_result.paymaster, None))

\* The bytes that the text of paymasterAndData denotes.
ReturnedBytes(rpc_result) ==
    bytes_fromhex(SliceFrom(rpc_result.paymasterAndData.chars, 2))

\* The calls where a provider's client built a PaymasterData from a packed
\* paymasterAndData.
ParsedFromPacked ==
    /\ fn_call # NoCall
    /\ fn_call.op = "paymaster_and_data"
    /\ ReadFromPacked(fn_call.args[1], fn_call.args[2])
    /\ fn_call.value.pm_data.kind = "returned"
    /\ fn_call.value.pm_data.value # None

\* C27: for every provider, the PaymasterData parsed from a packed
\* paymasterAndData serialises with to_bytes() to exactly the bytes that the
\* provider returned.
C27_PaymasterDataRoundTrips ==
    ParsedFromPacked => fn_call.value.bytes = ReturnedBytes(fn_call.args[2])

\* The Alchemy client, which reads the two gas limits out of the packed
\* data, gives the returned bytes back.
AlchemyPaymasterDataRoundTrips ==
    ParsedFromPacked /\ fn_call.args[1] = "alchemy"
        => fn_call.value.bytes = ReturnedBytes(fn_call.args[2])

\* The Pimlico, Biconomy and Stackup clients give the first 20 bytes, then
\* two 16-byte gas limits of 50000, then the bytes after the first 20: 32
\* bytes more than the provider returned.
FallbackInsertsDefaultLimits ==
    ParsedFromPacked /\ fn_call.args[1] # "alchemy"
        => LET returned == ReturnedBytes(fn_call.args[2]).value
           IN  fn_call.value.bytes =
                   Value(SliceTo(returned, 20)
                           \o int_to_bytes(DefaultPaymasterGasLimit, 16).value
                           \o int_to_bytes(DefaultPaymasterGasLimit, 16).value
                           \o SliceFrom(returned, 20))

----------------------------------------------------------------------------
\* WDK signer (wdk/signer.py, class WDKSigner)

\* An exception of wdk/errors.py: its class, its code and the class of the
\* exception it wraps.
WDKError(class, code, cause) == [class |-> class, code |-> code, cause |-> cause]

NotInitialized == WDKError("SignerError", "SIGNER_NOT_INITIALIZED", "none")

InvalidSeedPhrase ==
    WDKError("WDKInitializationError", "INVALID_SEED_PHRASE", "none")

\* A Python dict passed as an argument, its items in insertion order.
Dict(items) == [kind |-> "dict", items |-> items]

\* A Python int.
IntValue(n) == [kind |-> "int", value |-> n]

\* bool(value) is False: None, 0 and the empty string.
Falsy(value) ==
    \/ value = None
    \/ value.kind = "int" /\ value.value = 0
    \/ value.kind = "str" /\ value.chars = <<>>

IsStr(value) == value.kind = "str"

\* Web3(Web3.HTTPProvider(rpc_url))
Web3(rpc_url) == [provider |-> rpc_url]

\* The account Account.from_mnemonic derives and its address.
Account(seed_phrase, account_index) ==
    [mnemonic |-> seed_phrase, path_index |-> account_index]

AddressOf(account) == [address_of |-> account]

RECURSIVE ChainsFrom(_)
\* The loop of __init__ over chains.items(), a dict of chain name to RPC URL.
ChainsFrom(items) ==
    IF items = <<>> THEN <<>>
    ELSE LET chain_name == Head(items)[1]
             rpc_url == Head(items)[2]
             base_config == get_chain_config(chain_name)
             config ==
                 IF base_config # None
                 THEN ChainConfig(base_config.chain_id, base_config.network,
                                  chain_name, rpc_url,
                                  base_config.network_type)
                 ELSE ChainConfig(1, Caip2("eip155", 1), chain_name, rpc_url,
                                  "evm")
         IN  <<<<chain_name, config>>>> \o ChainsFrom(Tail(items))

\* A constructor without the default chain.
ConfiguredChains_NoDefault(chains) ==
    IF chains = None \/ chains.items = <<>> THEN <<>>
    ELSE ChainsFrom(chains.items)

\* self._chains at the end of __init__; chains is None or a dict.
ConfiguredChains(chains) ==
    LET given == IF chains = None \/ chains.items = <<>> THEN <<>>
                 ELSE ChainsFrom(chains.items)
    IN  IF given = <<>>
        THEN <<<<"arbitrum", DictGet(DEFAULT_CHAINS, "arbitrum", None)>>>>
        ELSE given

\* The object __init__ leaves behind when it raises nothing.
NewSigner(seed_phrase, chains, account_index) ==
    [kind |-> "signer",
     seed_phrase |-> seed_phrase,
     account_index |-> account_index,
     initialized |-> FALSE,
     evm_account |-> None,
     evm_address |-> None,
     web3_instances |-> <<>>,
     chains |-> ConfiguredChains(chains)]

\* What WDKSigner(seed_phrase, chains, account_index) raises, NoError if
\* nothing.
ConstructorError(seed_phrase) ==
    IF Falsy(seed_phrase) \/ ~IsStr(seed_phrase) THEN InvalidSeedPhrase
    ELSE IF ~validate_seed_phrase(seed_phrase) THEN InvalidSeedPhrase
    ELSE NoError

\* A call on the signer: the method, its arguments and what the call
\* returned or raised.
Called(op, args, outcome) == [op |-> op, args |-> args, outcome |-> outcome]

\* WDKSigner(seed_phrase, chains, account_index)
Construct(seed_phrase, chains, account_index) ==
    /\ signer = NoSigner
    /\ IF ConstructorError(seed_phrase) # NoError
       THEN /\ signer_call' = Called("__init__", <<seed_phrase, chains>>,
                                     Raised(ConstructorError(seed_phrase)))
            /\ UNCHANGED signer
       ELSE /\ signer' = NewSigner(seed_phrase, chains, account_index)
            /\ signer_call' = Called("__init__", <<seed_phrase, chains>>,
                                     Value(None))
    /\ UNCHANGED <<rpc_nodes, vars, fn_vars, pm_vars, wr_vars>>

RECURSIVE Web3For(_)
\* The loop of initialize over self._chains.items().
Web3For(chains) ==
    IF chains = <<>> THEN <<>>
    ELSE (IF Head(chains)[2].network_type = "evm"
          THEN <<<<Head(chains)[1], Web3(Head(chains)[2].rpc_url)>>>>
          ELSE <<>>) \o Web3For(Tail(chains))

RECURSIVE DictUpdate(_, _)
\* dict[key] = value for each pair of items, in order.
DictUpdate(dict, items) ==
    IF items = <<>> THEN dict
    ELSE LET key == Head(items)[1]
             set == IF DictHas(dict, key)
                    THEN [i \in 1..Len(dict) |->
                              IF dict[i][1] = key THEN Head(items)
                              ELSE dict[i]]
                    ELSE Append(dict, Head(items))
         IN  DictUpdate(set, Tail(items))

\* An initialize that derives nothing.
derive_account_Skipped(s) == s

\* The signer after lines 197-201 of initialize: account and address derived.
derive_account(s) ==
    LET account == Account(s.seed_phrase, s.account_index)
    IN  [s EXCEPT !.evm_account = account, !.evm_address = AddressOf(account)]

\* The signer after the loop of initialize created the Web3 instances of its
\* first n chains.
create_web3(s, n) ==
    [s EXCEPT !.web3_instances = DictUpdate(@, Web3For(SubSeq(s.chains, 1, n)))]

\* A signer whose initialize never sets the flag.
mark_initialized_Forgets(s) == s

\* self._initialized = True
mark_initialized(s) == [s EXCEPT !.initialized = TRUE]

InitializationFailed ==
    WDKError("WDKInitializationError", "WDK_NOT_INITIALIZED", "Exception")

\* How a run of initialize can go: to its end, or up to an exception of
\* Account.from_mnemonic, or up to an exception of the Web3 constructor for
\* the chain at position failed_at.
InitializeRuns(s) ==
    {[ends |-> "ok", failed_at |-> 0], [ends |-> "derivation", failed_at |-> 0]}
        \cup {[ends |-> "web3", failed_at |-> i] : i \in 1..Len(s.chains)}

\* await signer.initialize()
Initialize(run) ==
    /\ signer # NoSigner
    /\ run \in InitializeRuns(signer)
    /\ IF signer.initialized
       THEN /\ signer_call' = Called("initialize", <<>>, Value(None))
            /\ UNCHANGED signer
       ELSE CASE run.ends = "ok" ->
                   /\ signer' =
                        mark_initialized(
                            create_web3(derive_account(signer),
                                        Len(signer.chains)))
                   /\ signer_call' = Called("initialize", <<>>, Value(None))
              [] run.ends = "derivation" ->
                   /\ signer_call' = Called("initialize", <<>>,
                                            Raised(InitializationFailed))
                   /\ UNCHANGED signer
              [] run.ends = "web3" ->
                   /\ signer' = create_web3(derive_account(signer),
                                            run.failed_at - 1)
                   /\ signer_call' = Called("initialize", <<>>,
                                            Raised(InitializationFailed))
    /\ UNCHANGED <<rpc_nodes, vars, fn_vars, pm_vars, wr_vars>>

\* A signer that takes a derived account for an initialized one.
ensure_initialized_AccountDerived(s) ==
    IF s.evm_account = None THEN NotInitialized ELSE NoError

\* What self._ensure_initialized() raises, NoError if nothing.
ensure_initialized(s) == IF ~s.initialized THEN NotInitialized ELSE NoError

\* A method of the signer ran: it left the object as after and had outcome.
Ran(op, args, after, outcome) ==
    /\ signer' = after
    /\ signer_call' = Called(op, args, outcome)
    /\ UNCHANGED <<rpc_nodes, vars, fn_vars, pm_vars, wr_vars>>

\* str.lower() on the network types that occur.
Lower(network_type) == IF network_type = "EVM" THEN "evm" ELSE network_type

\* signer.get_address(network_type)
GetAddress(network_type) ==
    /\ signer # NoSigner
    /\ IF ensure_initialized(signer) # NoError
       THEN Ran("get_address", <<network_type>>, signer,
                Raised(ensure_initialized(signer)))
       ELSE Ran("get_address", <<network_type>>, signer,
                Value(IF Lower(network_type) = "evm"
                      THEN signer.evm_address ELSE None))

\* A SignedTypedData object.
TypedData(domain, types, primary_type, message) ==
    [kind |-> "SignedTypedData", domain |-> domain, types |-> types,
     primary_type |-> primary_type, message |-> message]

\* The typed data passed to sign_typed_data: nothing, an object of another
\* class, a complete payment authorization and one with an empty message.
TypedDataInputs ==
    { None, [kind |-> "dict"],
      TypedData("T402", "TransferWithAuthorization",
                "TransferWithAuthorization", "pay 1"),
      TypedData("T402", "TransferWithAuthorization",
                "TransferWithAuthorization", "") }

\* The signature of the account over a payload.
Signature(account, payload) == [signed_by |-> account, payload |-> payload]

SigningError(code, cause) == WDKError("SigningError", code, cause)

\* await signer.sign_typed_data(typed_data); library_ok: encode_typed_data
\* and Account.sign_message raise nothing.
SignTypedData(typed_data, library_ok) ==
    /\ signer # NoSigner
    /\ LET outcome ==
               IF ensure_initialized(signer) # NoError
               THEN Raised(ensure_initialized(signer))
               ELSE IF typed_data = None
                       \/ typed_data.kind # "SignedTypedData"
               THEN Raised(SigningError("INVALID_TYPED_DATA", "none"))
               ELSE IF \E part \in {typed_data.domain, typed_data.types,
                                    typed_data.primary_type,
                                    typed_data.message} : part = ""
               THEN Raised(SigningError("INVALID_TYPED_DATA", "none"))
               ELSE IF ~library_ok \/ signer.evm_account = None
               THEN Raised(SigningError("SIGN_TYPED_DATA_FAILED",
                                        "Exception"))
               ELSE Value(Signature(signer.evm_account, typed_data))
       IN  Ran("sign_typed_data", <<typed_data>>, signer, outcome)

\* The messages passed to sign_message: nothing, a str and bytes.
MessageInputs == {None, Str(<<"h", "i">>), [kind |-> "bytes", chars |-> <<"h", "i">>]}

\* await signer.sign_message(message); library_ok: decode, encode_defunct
\* and Account.sign_message raise nothing.
SignMessage(message, library_ok) ==
    /\ signer # NoSigner
    /\ LET outcome ==
               IF ensure_initialized(signer) # NoError
               THEN Raised(ensure_initialized(signer))
               ELSE IF message = None
               THEN Raised(SigningError("INVALID_MESSAGE", "none"))
               ELSE IF ~library_ok \/ signer.evm_account = None
               THEN Raised(SigningError("SIGN_MESSAGE_FAILED", "Exception"))
               ELSE Value(Signature(signer.evm_account, Str(message.chars)))
       IN  Ran("sign_message", <<message>>, signer, outcome)

\* await signer.pay(params)
Pay(params) ==
    /\ signer # NoSigner
    /\ IF ensure_initialized(signer) # NoError
       THEN Ran("pay", <<params>>, signer,
                Raised(ensure_initialized(signer)))
       ELSE Ran("pay", <<params>>, signer,
                Value([success |-> FALSE,
                       error |-> "Direct payments not implemented"]))

\* An answer of an RPC node: a balance, or an exception of the web3 call.
Balance(n) == [ok |-> TRUE, balance |-> n]

Failed == [ok |-> FALSE]

\* How the RPC nodes answer: the native balance, the balance of each kind of
\* token, and the chains whose node answers nothing.
RpcAnswers ==
    [native : {Failed, Balance(7)},
     usdt0 : {Failed, Balance(0), Balance(2)},
     usdc : {Failed, Balance(3)},
     usdt : {Balance(4)},
     down : {{}, {"ethereum"}, {"mychain"}}]

DictValues(dict) == {dict[i][2] : i \in 1..Len(dict)}

\* web3.eth.get_balance(address) on the node of chain.
NativeBalanceOf(rpc, chain) ==
    IF chain \in rpc.down THEN Failed ELSE rpc.native

\* contract.functions.balanceOf(address).call() on the node of chain.
TokenBalanceOf(rpc, chain, token_address) ==
    IF chain \in rpc.down THEN Failed
    ELSE IF token_address \in DictValues(USDT0_ADDRESSES) THEN rpc.usdt0
    ELSE IF token_address \in DictValues(USDC_ADDRESSES) THEN rpc.usdc
    ELSE IF token_address \in DictValues(USDT_LEGACY_ADDRESSES) THEN rpc.usdt
    ELSE Failed

\* Token addresses passed by callers besides those of the tables: empty,
\* without the 0x prefix, and with the prefix but no hex digits after it.
OddAddresses == {"", "abc", "0xzz"}

\* not token_address or not token_address.startswith("0x")
RejectedAddress(token_address) == token_address \in {"", "abc"}

\* Web3.to_checksum_address(token_address) raises.
NoChecksumAddress(token_address) == token_address = "0xzz"

ChainNotConfigured == WDKError("ChainError", "CHAIN_NOT_CONFIGURED", "none")

BalanceError(code, cause) == WDKError("BalanceError", code, cause)

\* What self._get_web3(chain) raises, NoError if nothing.
get_web3_error(s, chain) ==
    IF ~DictHas(s.web3_instances, chain) /\ ~DictHas(s.chains, chain)
    THEN ChainNotConfigured ELSE NoError

\* The signer after self._get_web3(chain) returned.
after_get_web3(s, chain) ==
    IF ~DictHas(s.web3_instances, chain) /\ DictHas(s.chains, chain)
    THEN [s EXCEPT !.web3_instances =
              Append(@, <<chain, Web3(DictGet(s.chains, chain, None).rpc_url)>>)]
    ELSE s

\* A method's effect: the signer after it and what it returned or raised.
Effect(after, outcome) == [after |-> after, outcome |-> outcome]

\* await self.get_balance(chain)
get_balance(s, rpc, chain) ==
    IF ensure_initialized(s) # NoError
    THEN Effect(s, Raised(ensure_initialized(s)))
    ELSE IF get_web3_error(s, chain) # NoError
    THEN Effect(s, Raised(get_web3_error(s, chain)))
    ELSE IF ~NativeBalanceOf(rpc, chain).ok
    THEN Effect(after_get_web3(s, chain),
                Raised(BalanceError("BALANCE_FETCH_FAILED", "Exception")))
    ELSE Effect(after_get_web3(s, chain),
                Value(NativeBalanceOf(rpc, chain).balance))

\* await self.get_token_balance(chain, token_address)
get_token_balance(s, rpc, chain, token_address) ==
    IF ensure_initialized(s) # NoError
    THEN Effect(s, Raised(ensure_initialized(s)))
    ELSE IF RejectedAddress(token_address)
    THEN Effect(s, Raised(BalanceError("INVALID_TOKEN_ADDRESS", "none")))
    ELSE IF get_web3_error(s, chain) # NoError
    THEN Effect(s, Raised(get_web3_error(s, chain)))
    ELSE IF NoChecksumAddress(token_address)
            \/ ~TokenBalanceOf(rpc, chain, token_address).ok
    THEN Effect(after_get_web3(s, chain),
                Raised(BalanceError("TOKEN_BALANCE_FETCH_FAILED",
                                    "Exception")))
    ELSE Effect(after_get_web3(s, chain),
                Value(TokenBalanceOf(rpc, chain, token_address).balance))

\* get_usdt0_balance and get_usdc_balance: the balance of the chain's token
\* of the address table, 0 without an address and on a BalanceError.
table_balance(s, rpc, chain, addresses) ==
    IF ~DictHas(addresses, chain) THEN Effect(s, Value(0))
    ELSE LET fetched == get_token_balance(s, rpc, chain,
                                          DictGet(addresses, chain, None))
         IN  IF fetched.outcome.kind = "raised"
                /\ fetched.outcome.error.class = "BalanceError"
             THEN Effect(fetched.after, Value(0))
             ELSE fetched

get_usdt0_balance(s, rpc, chain) ==
    table_balance(s, rpc, chain, USDT0_ADDRESSES)

get_usdc_balance(s, rpc, chain) ==
    table_balance(s, rpc, chain, USDC_ADDRESSES)

TokenBalance(token, symbol, balance, formatted, decimals) ==
    [token |-> token, symbol |-> symbol, balance |-> balance,
     formatted |-> formatted, decimals |-> decimals]

ChainBalance(chain, network, native, tokens) ==
    [chain |-> chain, network |-> network, native |-> native,
     tokens |-> tokens]

\* An except clause that matches no exception.
IsRaised_Never(effect, class) == FALSE

\* except <class>: the effect is an exception of the class.
IsRaised(effect, class) ==
    effect.outcome.kind = "raised" /\ effect.outcome.error.class = class

RECURSIVE token_balances(_, _, _, _)
\* The for loop of get_chain_balances over the chain's tokens: an Effect
\* whose value is the list of TokenBalance, or the exception that left the
\* loop.
token_balances(s, rpc, chain, tokens) ==
    IF tokens = <<>> THEN Effect(s, Value(<<>>))
    ELSE LET token == Head(tokens)
             fetched == get_token_balance(s, rpc, chain, token.address)
             entry ==
                 IF fetched.outcome.kind = "returned"
                 THEN TokenBalance(token.address, token.symbol,
                                   fetched.outcome.value,
                                   format_token_amount(fetched.outcome.value,
                                                       token.decimals),
                                   token.decimals)
                 ELSE TokenBalance(token.address, token.symbol, 0,
                                   Str(<<"0">>), token.decimals)
             rest == token_balances(fetched.after, rpc, chain, Tail(tokens))
         IN  IF fetched.outcome.kind = "raised"
                /\ ~IsRaised(fetched, "BalanceError")
             THEN fetched
             ELSE IF rest.outcome.kind = "raised" THEN rest
             ELSE Effect(rest.after, Value(<<entry>> \o rest.outcome.value))

\* The except clauses of get_chain_balances: a ChainError passes, any other
\* exception becomes a BalanceError.
chain_balances_except(effect) ==
    IF IsRaised(effect, "ChainError") THEN effect
    ELSE Effect(effect.after,
                Raised(BalanceError("BALANCE_FETCH_FAILED",
                                    effect.outcome.error.class)))

\* await self.get_chain_balances(chain)
get_chain_balances(s, rpc, chain) ==
    IF ensure_initialized(s) # NoError
    THEN Effect(s, Raised(ensure_initialized(s)))
    ELSE IF ~DictHas(s.chains, chain)
    THEN Effect(s, Raised(ChainNotConfigured))
    ELSE LET config == DictGet(s.chains, chain, None)
             native == get_balance(s, rpc, chain)
             listed == token_balances(native.after, rpc, chain,
                                      get_chain_tokens(chain))
         IN  IF native.outcome.kind = "raised"
             THEN chain_balances_except(native)
             ELSE IF listed.outcome.kind = "raised"
             THEN chain_balances_except(listed)
             ELSE Effect(listed.after,
                         Value(ChainBalance(chain, config.network,
                                            native.outcome.value,
                                            listed.outcome.value)))

RECURSIVE all_balances(_, _, _, _)
\* The for loop of get_all_balances over self._chains.items(), from the
\* dict balances on.
all_balances(s, rpc, chains, balances) ==
    IF chains = <<>> THEN Effect(s, Value(balances))
    ELSE LET chain_name == Head(chains)[1]
             config == Head(chains)[2]
             usdt0 == get_usdt0_balance(s, rpc, chain_name)
             usdc == get_usdc_balance(usdt0.after, rpc, chain_name)
             step ==
                 IF usdt0.outcome.kind = "raised"
                 THEN Effect(usdt0.after, 0)
                 ELSE IF usdt0.outcome.value > 0
                 THEN Effect(usdt0.after, usdt0.outcome.value)
                 ELSE IF usdc.outcome.kind = "raised"
                 THEN Effect(usdc.after, 0)
                 ELSE Effect(usdc.after, usdc.outcome.value)
         IN  all_balances(step.after, rpc, Tail(chains),
                          DictUpdate(balances,
                                     <<<<config.network, step.outcome>>>>))

\* await self.get_all_balances()
get_all_balances(s, rpc) ==
    IF ensure_initialized(s) # NoError
    THEN Effect(s, Raised(ensure_initialized(s)))
    ELSE all_balances(s, rpc, s.chains, <<>>)

RECURSIVE SumOf(_, _)
\* The balances of the tokens with the symbol, added up.
SumOf(tokens, symbol) ==
    IF tokens = <<>> THEN 0
    ELSE (IF Head(tokens).symbol = symbol THEN Head(tokens).balance ELSE 0)
         + SumOf(Tail(tokens), symbol)

\* An aggregate with its two totals exchanged.
AggregatedBalance_Swapped(total_usdt0, total_usdc, chains) ==
    [total_usdt0 |-> total_usdc, total_usdc |-> total_usdt0,
     chains |-> chains]

AggregatedBalance(total_usdt0, total_usdc, chains) ==
    [total_usdt0 |-> total_usdt0, total_usdc |-> total_usdc,
     chains |-> chains]

RECURSIVE aggregated_balances(_, _, _, _, _)
\* The for loop of get_aggregated_balances over self._chains, from the
\* totals and the list of sum on.
aggregated_balances(s, rpc, names, continue_on_error, sum) ==
    IF names = <<>> THEN Effect(s, Value(sum))
    ELSE LET chain_name == Head(names)
             fetched == get_chain_balances(s, rpc, chain_name)
             config == DictGet(s.chains, chain_name, None)
         IN  IF fetched.outcome.kind = "returned"
             THEN aggregated_balances(
                      fetched.after, rpc, Tail(names), continue_on_error,
                      AggregatedBalance(
                          sum.total_usdt0
                            + SumOf(fetched.outcome.value.tokens, "USDT0"),
                          sum.total_usdc
                            + SumOf(fetched.outcome.value.tokens, "USDC"),
                          Append(sum.chains, fetched.outcome.value)))
             ELSE IF ~continue_on_error THEN fetched
             ELSE aggregated_balances(
                      fetched.after, rpc, Tail(names), continue_on_error,
                      IF config # None
                      THEN [sum EXCEPT !.chains =
                                Append(@, ChainBalance(chain_name,
                                                       config.network, 0,
                                                       <<>>))]
                      ELSE sum)

\* await self.get_aggregated_balances(continue_on_error)
get_aggregated_balances(s, rpc, continue_on_error) ==
    IF ensure_initialized(s) # NoError
    THEN Effect(s, Raised(ensure_initialized(s)))
    ELSE aggregated_balances(s, rpc, DictKeys(s.chains), continue_on_error,
                             AggregatedBalance(0, 0, <<>>))

\* Arguments of the calls on the signer.
Phrase(k) == Str(Joined(k, <<" ">>))

SeedInputs == {None, IntValue(12), Str(<<>>), Phrase(11), Phrase(12)}

ChainsInputs ==
    { None, Dict(<<>>),
      Dict(<<<<"arbitrum", "https://rpc.example/arbitrum">>>>),
      Dict(<<<<"mychain", "https://rpc.example/mychain">>,
             <<"ethereum", "https://rpc.example/ethereum">>>>) }

ChainArgs == {"arbitrum", "ethereum", "mychain", "polygon"}

TokenAddressArgs ==
    OddAddresses \cup {DictGet(USDT0_ADDRESSES, "ethereum", "")}

\* await signer.get_balance(chain)
GetBalance(chain) ==
    /\ signer # NoSigner
    /\ LET effect == get_balance(signer, rpc_nodes, chain)
       IN  Ran("get_balance", <<chain>>, effect.after, effect.outcome)

\* await signer.get_token_balance(chain, token_address)
GetTokenBalance(chain, token_address) ==
    /\ signer # NoSigner
    /\ LET effect == get_token_balance(signer, rpc_nodes, chain, token_address)
       IN  Ran("get_token_balance", <<chain, token_address>>, effect.after,
               effect.outcome)

\* await signer.get_usdt0_balance(chain)
GetUsdt0Balance(chain) ==
    /\ signer # NoSigner
    /\ LET effect == get_usdt0_balance(signer, rpc_nodes, chain)
       IN  Ran("get_usdt0_balance", <<chain>>, effect.after, effect.outcome)

\* await signer.get_usdc_balance(chain)
GetUsdcBalance(chain) ==
    /\ signer # NoSigner
    /\ LET effect == get_usdc_balance(signer, rpc_nodes, chain)
       IN  Ran("get_usdc_balance", <<chain>>, effect.after, effect.outcome)

\* await signer.get_chain_balances(chain)
GetChainBalances(chain) ==
    /\ signer # NoSigner
    /\ LET effect == get_chain_balances(signer, rpc_nodes, chain)
       IN  Ran("get_chain_balances", <<chain>>, effect.after, effect.outcome)

\* await signer.get_all_balances()
GetAllBalances ==
    /\ signer # NoSigner
    /\ LET effect == get_all_balances(signer, rpc_nodes)
       IN  Ran("get_all_balances", <<>>, effect.after, effect.outcome)

\* await signer.get_aggregated_balances(continue_on_error)
GetAggregatedBalances(continue_on_error) ==
    /\ signer # NoSigner
    /\ LET effect == get_aggregated_balances(signer, rpc_nodes,
                                             continue_on_error)
       IN  Ran("get_aggregated_balances", <<continue_on_error>>,
               effect.after, effect.outcome)

SignerNext ==
    \/ \E seed_phrase \in SeedInputs, chains \in ChainsInputs :
           Construct(seed_phrase, chains, 0)
    \/ \E run \in [ends : {"ok", "derivation", "web3"}, failed_at : 0..2] :
           Initialize(run)
    \/ \E network_type \in {"evm", "EVM", "solana"} : GetAddress(network_type)
    \/ \E typed_data \in TypedDataInputs, library_ok \in BOOLEAN :
           SignTypedData(typed_data, library_ok)
    \/ \E message \in MessageInputs, library_ok \in BOOLEAN :
           SignMessage(message, library_ok)
    \/ \E chain \in ChainArgs : GetBalance(chain)
    \/ \E chain \in ChainArgs, token_address \in TokenAddressArgs :
           GetTokenBalance(chain, token_address)
    \/ \E chain \in ChainArgs : GetUsdt0Balance(chain)
    \/ \E chain \in ChainArgs : GetUsdcBalance(chain)
    \/ \E chain \in ChainArgs : GetChainBalances(chain)
    \/ GetAllBalances
    \/ \E continue_on_error \in BOOLEAN :
           GetAggregatedBalances(continue_on_error)
    \/ \E params \in {None, [amount |-> 1]} : Pay(params)

\* One signer and its callers; the RPC nodes answer in one of the ways of
\* RpcAnswers.
SignerSpecInit ==
    /\ Init /\ FnInit /\ PaymasterInit /\ ReceiptInit
    /\ signer = NoSigner /\ signer_call = NoCall /\ rpc_nodes \in RpcAnswers

SignerSpec == SignerSpecInit /\ [][SignerNext]_all_vars

\* Seed phrases passed to the constructor: those of SeedInputs, one of
\* every number of words and one with whitespace of every kind.
ConstructorSeeds ==
    SeedInputs \cup {Phrase(k) : k \in 0..MaxWords}
        \cup {Str(<<" ">> \o Joined(12, <<" ", "\t">>) \o <<"\n">>)}

SeedNext ==
    \/ \E seed_phrase \in SeedPhrases : ValidateSeedPhrase(seed_phrase)
    \/ \E seed_phrase \in ConstructorSeeds : Construct(seed_phrase, None, 0)

\* Seed phrases validated and signers constructed from them.
SeedSpec ==
    /\ ModelInit
    /\ [][SeedNext]_all_vars

----------------------------------------------------------------------------
\* Claims about the signer

\* The number of words of a text: the places where a character that is not
\* whitespace stands first or follows whitespace.
WordCount(chars) ==
    Cardinality({i \in 1..Len(chars) :
                    /\ ~IsSpace(chars[i])
                    /\ i = 1 \/ IsSpace(chars[i - 1])})

\* A seed phrase argument no signer may be built from.
InvalidSeed(seed_phrase) ==
    \/ seed_phrase = None
    \/ ~IsStr(seed_phrase)
    \/ seed_phrase.chars = <<>>
    \/ WordCount(seed_phrase.chars) \notin {12, 15, 18, 21, 24}

\* C14: validate_seed_phrase returns True exactly for the phrases of 12, 15,
\* 18, 21 or 24 whitespace-separated words; the constructor called with an
\* empty, non-string or otherwise invalid seed phrase raises
\* WDKInitializationError with code INVALID_SEED_PHRASE and leaves no signer,
\* so every signer that exists holds a valid phrase.
C14_InvalidSeedMakesNoSigner ==
    /\ fn_call.op = "validate_seed_phrase" =>
         (fn_call.value <=>
            WordCount(fn_call.args[1].chars) \in {12, 15, 18, 21, 24})
    /\ (signer_call.op = "__init__" /\ InvalidSeed(signer_call.args[1])) =>
         /\ signer_call.outcome.kind = "raised"
         /\ signer_call.outcome.error.class = "WDKInitializationError"
         /\ signer_call.outcome.error.code = "INVALID_SEED_PHRASE"
         /\ signer = NoSigner
    /\ signer # NoSigner => ~InvalidSeed(signer.seed_phrase)

\* A phrase of 24 words with tabs and a trailing newline was found valid and
\* the constructor refused a phrase of 13 words.
C14_Witness ==
    /\ fn_call.op = "validate_seed_phrase"
    /\ fn_call.args = <<Str(Joined(24, <<" ", "\t">>) \o <<"\n">>)>>
    /\ fn_call.value = TRUE
    /\ signer_call.op = "__init__"
    /\ signer_call.args[1] = Phrase(13)
    /\ signer_call.outcome = Raised(InvalidSeedPhrase)
    /\ signer = NoSigner

HasSigner == signer # NoSigner

IsInitialized == HasSigner /\ signer.initialized

\* C12: a newly constructed signer is not initialized; when initialize
\* returns, the signer is initialized and holds the account derived from its
\* seed phrase and that account's address; no step makes an initialized
\* signer uninitialized; initialize on an initialized signer returns without
\* changing the signer (account, address, Web3 instances).
C12_SignerLifecycle ==
    /\ [](/\ (signer_call.op = "__init__" /\ HasSigner)
               => /\ ~signer.initialized
                  /\ signer.evm_account = None
                  /\ signer.evm_address = None
          /\ (signer_call.op = "initialize"
              /\ signer_call.outcome.kind = "returned")
               => /\ signer.initialized
                  /\ signer.evm_account
                       = Account(signer.seed_phrase, signer.account_index)
                  /\ signer.evm_address = AddressOf(signer.evm_account))
    /\ [][/\ IsInitialized => signer'.initialized
          /\ (IsInitialized /\ signer_call'.op = "initialize")
               => /\ signer' = signer
                  /\ signer_call'.outcome = Value(None)]_all_vars

\* initialize was called on an initialized signer with two chains.
C12_Witness ==
    /\ IsInitialized
    /\ signer_call.op = "initialize"
    /\ Len(signer.web3_instances) = 2
    /\ signer.evm_address = AddressOf(Account(Phrase(12), 0))

GuardedMethods ==
    {"get_address", "sign_typed_data", "sign_message", "get_balance",
     "get_token_balance", "get_chain_balances", "get_all_balances",
     "get_aggregated_balances", "pay"}

\* C13: a call of one of the nine guarded methods on a signer whose
\* initialize has not succeeded raises SignerError with code
\* SIGNER_NOT_INITIALIZED (so it returns no signature and no address) and
\* leaves the signer as it was.
C13_UninitializedRaises ==
    [][(HasSigner /\ ~signer.initialized
        /\ signer_call'.op \in GuardedMethods)
       => /\ signer_call'.outcome.kind = "raised"
          /\ signer_call'.outcome.error.class = "SignerError"
          /\ signer_call'.outcome.error.code = "SIGNER_NOT_INITIALIZED"
          /\ signer' = signer]_all_vars

\* sign_typed_data was refused on a signer whose initialize had derived the
\* account and then failed.
C13_Witness ==
    /\ HasSigner
    /\ ~signer.initialized
    /\ signer.evm_account # None
    /\ signer_call.op = "sign_typed_data"
    /\ signer_call.outcome = Raised(NotInitialized)

\* The configuration the constructor makes of one item of chains.
ConfiguredAs(config, chain_name, rpc_url) ==
    /\ config # None
    /\ config.name = chain_name
    /\ config.rpc_url = rpc_url
    /\ IsDefaultChain(chain_name) =>
         /\ config.chain_id = get_chain_id(chain_name)
         /\ config.network = get_network_from_chain(chain_name)
    /\ ~IsDefaultChain(chain_name) =>
         /\ config.chain_id = 1
         /\ config.network = Caip2("eip155", 1)
         /\ config.network_type = "evm"

\* C18: after construction every chain of chains is configured with its RPC
\* URL, a known chain with the default chain id and network, an unknown one
\* as a custom EVM chain, and no other chain is configured; without chains
\* the signer has the default chain arbitrum and no other; the configured
\* chains are never empty and no step changes them.
C18_ConfiguredChainsFixed ==
    /\ [](/\ HasSigner => signer.chains # <<>>
          /\ (signer_call.op = "__init__" /\ HasSigner) =>
               LET chains == signer_call.args[2]
               IN  IF chains = None \/ chains.items = <<>>
                   THEN signer.chains
                          = <<<<"arbitrum", get_chain_config("arbitrum")>>>>
                   ELSE /\ DictKeys(signer.chains) = DictKeys(chains.items)
                        /\ \A i \in 1..Len(chains.items) :
                               ConfiguredAs(
                                   DictGet(signer.chains, chains.items[i][1],
                                           None),
                                   chains.items[i][1], chains.items[i][2]))
    /\ [][HasSigner => /\ signer' # NoSigner
                       /\ signer'.chains = signer.chains]_all_vars

\* A signer was built for an unknown chain and for ethereum.
C18_Witness ==
    /\ signer_call.op = "__init__"
    /\ HasSigner
    /\ DictKeys(signer.chains) = <<"mychain", "ethereum">>
    /\ DictGet(signer.chains, "mychain", None).chain_id = 1
    /\ DictGet(signer.chains, "ethereum", None).rpc_url
         = "https://rpc.example/ethereum"

\* What a caller of get_token_balance(chain, token_address) gets on a
\* configured chain, a failed fetch counting as 0.
FetchedOrZero(chain, token_address) ==
    IF TokenBalanceOf(rpc_nodes, chain, token_address).ok
    THEN TokenBalanceOf(rpc_nodes, chain, token_address).balance
    ELSE 0

\* The ChainBalance of chain lists the chain's tokens in listing order, a
\* token whose fetch failed with balance 0 and formatted "0".
ListsChainTokens(chain_balance, chain) ==
    LET tokens == get_chain_tokens(chain)
        listed == chain_balance.tokens
    IN  /\ Len(listed) = Len(tokens)
        /\ \A i \in 1..Len(tokens) :
               /\ listed[i].token = tokens[i].address
               /\ listed[i].symbol = tokens[i].symbol
               /\ listed[i].decimals = tokens[i].decimals
               /\ listed[i].balance = FetchedOrZero(chain, tokens[i].address)
               /\ ~TokenBalanceOf(rpc_nodes, chain, tokens[i].address).ok
                    => listed[i].formatted = Str(<<"0">>)

\* C23: on an initialized signer, get_chain_balances(chain) for a configured
\* chain whose native balance fetch succeeds returns the chain's native
\* balance and one TokenBalance per listed token, in listing order, a token
\* whose fetch failed with balance 0 and formatted "0"; when the native
\* balance fetch fails the call raises BalanceError; for a chain that is not
\* configured it raises ChainError with code CHAIN_NOT_CONFIGURED.
C23_ChainBalancesPerToken ==
    (IsInitialized /\ signer_call.op = "get_chain_balances") =>
        LET chain == signer_call.args[1]
            outcome == signer_call.outcome
        IN  IF ~DictHas(signer.chains, chain)
            THEN /\ outcome.kind = "raised"
                 /\ outcome.error.class = "ChainError"
                 /\ outcome.error.code = "CHAIN_NOT_CONFIGURED"
            ELSE IF ~NativeBalanceOf(rpc_nodes, chain).ok
            THEN /\ outcome.kind = "raised"
                 /\ outcome.error.class = "BalanceError"
            ELSE /\ outcome.kind = "returned"
                 /\ outcome.value.chain = chain
                 /\ outcome.value.native
                      = NativeBalanceOf(rpc_nodes, chain).balance
                 /\ ListsChainTokens(outcome.value, chain)

\* The balances of ethereum were returned with the failed USDT0 fetch as 0
\* and the USDC balance as fetched.
C23_Witness ==
    /\ IsInitialized
    /\ signer_call.op = "get_chain_balances"
    /\ signer_call.args = <<"ethereum">>
    /\ ~rpc_nodes.usdt0.ok
    /\ rpc_nodes.usdc.ok
    /\ signer_call.outcome.kind = "returned"
    /\ Len(signer_call.outcome.value.tokens) = 3
    /\ signer_call.outcome.value.tokens[1].formatted = Str(<<"0">>)
    /\ signer_call.outcome.value.tokens[2].balance = 3

\* The sum of SumOf(chain.tokens, symbol) over the ChainBalances of chains.
RECURSIVE TotalOf(_, _)
TotalOf(chains, symbol) ==
    IF chains = <<>> THEN 0
    ELSE SumOf(Head(chains).tokens, symbol) + TotalOf(Tail(chains), symbol)

\* The fetch of the balances of a configured chain fails.
ChainFetchFails(chain) == ~NativeBalanceOf(rpc_nodes, chain).ok

TableBalanceOf(chain, addresses) ==
    IF DictHas(addresses, chain)
    THEN FetchedOrZero(chain, DictGet(addresses, chain, ""))
    ELSE 0

\* The chain's USDT0 balance when it is greater than zero, else its USDC
\* balance.
StablecoinBalanceOf(chain) ==
    IF TableBalanceOf(chain, USDT0_ADDRESSES) > 0
    THEN TableBalanceOf(chain, USDT0_ADDRESSES)
    ELSE TableBalanceOf(chain, USDC_ADDRESSES)

\* C24: on an initialized signer, get_all_balances returns, and for each
\* configured chain the value under the chain's network id is the chain's
\* USDT0 balance when greater than zero and otherwise its USDC balance.
C24_AllBalancesPerChain ==
    (IsInitialized /\ signer_call.op = "get_all_balances") =>
        /\ signer_call.outcome.kind = "returned"
        /\ \A i \in 1..Len(signer.chains) :
               DictGet(signer_call.outcome.value,
                       signer.chains[i][2].network, -1)
                 = StablecoinBalanceOf(signer.chains[i][1])

\* get_all_balances returns, and the value under a network id is the
\* stablecoin balance of the last configured chain with that network id.
AllBalancesLastChainWins ==
    (IsInitialized /\ signer_call.op = "get_all_balances") =>
        /\ signer_call.outcome.kind = "returned"
        /\ \A i \in 1..Len(signer.chains) :
               (\A j \in 1..Len(signer.chains) :
                    signer.chains[j][2].network = signer.chains[i][2].network
                      => j <= i)
               => DictGet(signer_call.outcome.value,
                          signer.chains[i][2].network, -1)
                    = StablecoinBalanceOf(signer.chains[i][1])

\* The methods that sign or give the address.
SigningAndAddressMethods == {"get_address", "sign_typed_data", "sign_message"}

\* C26: when initialize raises, it raises WDKInitializationError and the
\* signer is not initialized; while the signer is not initialized, every
\* signing and address method raises SignerError, also when the account was
\* derived before the failure; an initialized signer has its EVM account and
\* address set.
C26_FailedInitializeStaysUninitialized ==
    /\ [](/\ (signer_call.op = "initialize"
              /\ signer_call.outcome.kind = "raised")
               => /\ signer_call.outcome.error.class
                       = "WDKInitializationError"
                  /\ ~signer.initialized
          /\ IsInitialized
               => /\ signer.evm_account # None
                  /\ signer.evm_address # None
                  /\ signer.evm_address = AddressOf(signer.evm_account))
    /\ [][(HasSigner /\ ~signer.initialized
           /\ signer_call'.op \in SigningAndAddressMethods)
          => /\ signer_call'.outcome.kind = "raised"
             /\ signer_call'.outcome.error.class = "SignerError"
             /\ ~signer'.initialized]_all_vars

\* initialize failed at the Web3 instance of the second chain, after the
\* account was derived and the first chain's instance was made.
C26_Witness ==
    /\ HasSigner
    /\ signer_call.op = "initialize"
    /\ signer_call.outcome = Raised(InitializationFailed)
    /\ ~signer.initialized
    /\ signer.evm_account # None
    /\ Len(signer.chains) = 2
    /\ Len(signer.web3_instances) = 1

----------------------------------------------------------------------------
\* Unified paymaster (erc4337/paymasters.py, class UnifiedPaymaster)

\* Largest number of paymasters in the list.
MaxPaymasters == 4

\* What a paymaster of the list does when asked for paymaster data: it
\* returns data, raises PaymasterError, or raises another exception.
PaymasterBehaviours == {"sponsors", "refuses", "breaks"}

PaymasterLists ==
    UNION {[1..n -> PaymasterBehaviours] : n \in 0..MaxPaymasters}

\* The PaymasterData the paymaster at position i returns.
PaymasterDataOf(i) == [paymaster_data_of |-> i]

\* The exception the paymaster at position i raises; position 0 is the
\* unified paymaster itself.
PaymasterException(type, i) == [type |-> type, raised_by |-> i]

\* The exception at the end of get_paymaster_data.
AllPaymastersFailed(last_error) ==
    [type |-> "PaymasterError", raised_by |-> 0, last_error |-> last_error]

\* An except clause that catches every exception.
IsPaymasterError_Any(error) == TRUE

\* except PaymasterError as e
IsPaymasterError(error) == error.type = "PaymasterError"

\* unified.get_paymaster_data(user_op, chain_id, entry_point) is called on a
\* unified paymaster built with paymasters.
GetPaymasterData(paymasters) ==
    /\ pm_pc \in {"idle", "done"}
    /\ pm_list' = paymasters
    /\ pm_last_error' = None
    /\ pm_i' = 1
    /\ pm_called' = <<>>
    /\ pm_result' = NoResult
    /\ pm_pc' = "loop"
    /\ UNCHANGED <<vars, signer_vars, fn_vars, wr_vars>>

\* One turn of the for loop: the next paymaster is asked.
TryPaymaster ==
    /\ pm_pc = "loop"
    /\ pm_i <= Len(pm_list)
    /\ pm_called' = Append(pm_called, pm_i)
    /\ IF pm_list[pm_i] = "sponsors"
       THEN /\ pm_result' = Value(PaymasterDataOf(pm_i))
            /\ pm_pc' = "done"
            /\ UNCHANGED <<pm_i, pm_last_error>>
       ELSE LET error ==
                    IF pm_list[pm_i] = "refuses"
                    THEN PaymasterException("PaymasterError", pm_i)
                    ELSE PaymasterException("RuntimeError", pm_i)
            IN  IF IsPaymasterError(error)
                THEN /\ pm_last_error' = error
                     /\ pm_i' = pm_i + 1
                     /\ UNCHANGED <<pm_result, pm_pc>>
                ELSE /\ pm_result' = Raised(error)
                     /\ pm_pc' = "done"
                     /\ UNCHANGED <<pm_i, pm_last_error>>
    /\ UNCHANGED <<pm_list, vars, signer_vars, fn_vars, wr_vars>>

\* The loop is over: every paymaster raised PaymasterError, or there is none.
RaiseAllFailed ==
    /\ pm_pc = "loop"
    /\ pm_i > Len(pm_list)
    /\ pm_result' = Raised(AllPaymastersFailed(pm_last_error))
    /\ pm_pc' = "done"
    /\ UNCHANGED <<pm_list, pm_i, pm_last_error, pm_called, vars,
                   signer_vars, fn_vars, wr_vars>>

PaymasterNext ==
    \/ \E paymasters \in PaymasterLists : GetPaymasterData(paymasters)
    \/ TryPaymaster
    \/ RaiseAllFailed

PaymasterSpec ==
    /\ ModelInit
    /\ [][PaymasterNext]_all_vars

\* The positions of the paymasters that do not raise PaymasterError.
NotRefusing == {i \in 1..Len(pm_list) : pm_list[i] # "refuses"}

\* The first of them.
FirstNotRefusing == CHOOSE i \in NotRefusing : \A j \in NotRefusing : i <= j

----------------------------------------------------------------------------
\* Bundler client (erc4337/bundlers.py, class GenericBundlerClient)

\* Largest finite timeout passed to wait_for_receipt, in clock ticks.
MaxTimeout == 3

\* Largest polling interval passed to wait_for_receipt, in clock ticks.
MaxInterval == 2

\* Longest time one poll of the bundler takes, in clock ticks.  A poll is an
\* HTTP round trip, so it takes at least one tick.
MaxPollTicks == 2

\* The clock reads 0 when wait_for_receipt is called.  MaxClock stands for
\* every time past all finite deadlines.
MaxClock == MaxTimeout + 1

Later(t, ticks) == IF t + ticks < MaxClock THEN t + ticks ELSE MaxClock

\* Python floats: a finite number of ticks, or float("inf").
Seconds(n) == [kind |-> "float", seconds |-> n]
Infinity == [kind |-> "float", inf |-> TRUE]

\* time.time() + timeout
Plus(t, timeout) ==
    IF timeout = Infinity THEN Infinity ELSE Seconds(t + timeout.seconds)

\* A loop condition that is always true.
BeforeDeadline_Always(t, deadline) == TRUE

\* time.time() < deadline
BeforeDeadline(t, deadline) ==
    IF deadline = Infinity THEN TRUE ELSE t < deadline.seconds

\* What the bundler does with one JSON-RPC request: the transport fails, it
\* answers with an HTTP status other than 200, or it answers 200 with a JSON
\* body that has an error member or a result member.
TransportFails == [kind |-> "transport"]
HttpAnswer(status_code) == [kind |-> "http", status_code |-> status_code]
JsonError == [kind |-> "json", member |-> "error"]
JsonResult(value) ==
    [kind |-> "json", member |-> "result", result |-> value]

\* A result object of eth_getUserOperationReceipt; "" stands for a missing
\* userOpHash.
ReceiptObject(userOpHash, nonce) ==
    [kind |-> "dict", userOpHash |-> userOpHash, nonce |-> nonce]

EmptyObject == [kind |-> "dict"]

BundlerAnswers ==
    {TransportFails, HttpAnswer(500), JsonError, JsonResult(None),
     JsonResult(EmptyObject), JsonResult(ReceiptObject("", "0x1")),
     JsonResult(ReceiptObject("0xabc", "0x1")),
     JsonResult(ReceiptObject("0xabc", "0x"))}

BundlerError(message) == [type |-> "BundlerError", message |-> message]

OtherError(type) == [type |-> type, message |-> ""]

\* _rpc_call(method, params), given what the bundler does.
rpc_call(answer) ==
    CASE answer.kind = "transport" -> Raised(OtherError("httpx.TransportError"))
      [] answer.kind = "http" /\ answer.status_code # 200 ->
            Raised(BundlerError("HTTP error"))
      [] answer.kind = "json" /\ answer.member = "error" ->
            Raised(BundlerError("rpc error"))
      [] OTHER -> Value(answer.result)

\* int(text, 16)
HexValues == <<<<"0x0", 0>>, <<"0x1", 1>>>>

IsHex(text) == DictHas(HexValues, text)

UserOperationReceipt(user_op_hash, nonce) ==
    [kind |-> "UserOperationReceipt", user_op_hash |-> user_op_hash,
     nonce |-> nonce]

\* get_user_operation_receipt(user_op_hash), given what the bundler does.
get_user_operation_receipt(answer) ==
    LET called == rpc_call(answer)
        object == called.value
    IN  IF called.kind = "raised" THEN called
        ELSE IF object = None \/ object = EmptyObject
                  \/ object.userOpHash = ""
        THEN Value(None)
        ELSE IF ~IsHex(object.nonce)
        THEN Raised(OtherError("ValueError"))
        ELSE Value(UserOperationReceipt(object.userOpHash,
                                        DictGet(HexValues, object.nonce, 0)))

TimeoutInputs == {Seconds(n) : n \in -1..MaxTimeout} \cup {Infinity}

IntervalInputs == -1..MaxInterval

\* The record of one poll: when it started and what the bundler did.
PollAt(t, answer) == [at |-> t, answer |-> answer]

\* wait_for_receipt(user_op_hash, timeout, polling_interval) is called.
WaitForReceipt(timeout, polling_interval) ==
    /\ wr_pc = "idle"
    /\ wr_timeout' = timeout
    /\ wr_interval' = polling_interval
    /\ wr_deadline' = Plus(now, timeout)
    /\ wr_pc' = "test"
    /\ UNCHANGED <<now, wr_last_poll, wr_result, vars, signer_vars, fn_vars,
                   pm_vars>>

\* The loop condition is evaluated; when it is false the call raises.
TestDeadline ==
    /\ wr_pc = "test"
    /\ IF BeforeDeadline(now, wr_deadline)
       THEN /\ wr_pc' = "poll"
            /\ UNCHANGED wr_result
       ELSE /\ wr_result' = Raised(BundlerError("Timeout waiting"))
            /\ wr_pc' = "done"
    /\ UNCHANGED <<now, wr_timeout, wr_interval, wr_deadline, wr_last_poll,
                   vars, signer_vars, fn_vars, pm_vars>>

\* One poll, which takes ticks of the clock, and the test of what it gave.
Poll(answer, ticks) ==
    /\ wr_pc = "poll"
    /\ wr_last_poll' = PollAt(now, answer)
    /\ now' = Later(now, ticks)
    /\ LET receipt == get_user_operation_receipt(answer)
       IN  IF receipt = Value(None)
           THEN /\ wr_pc' = "sleep"
                /\ UNCHANGED wr_result
           ELSE /\ wr_result' = receipt
                /\ wr_pc' = "done"
    /\ UNCHANGED <<wr_timeout, wr_interval, wr_deadline, vars, signer_vars,
                   fn_vars, pm_vars>>

\* time.sleep(polling_interval); a negative interval raises ValueError.
Sleep ==
    /\ wr_pc = "sleep"
    /\ IF wr_interval < 0
       THEN /\ wr_result' = Raised(OtherError("ValueError"))
            /\ wr_pc' = "done"
            /\ UNCHANGED now
       ELSE /\ now' = Later(now, wr_interval)
            /\ wr_pc' = "test"
            /\ UNCHANGED wr_result
    /\ UNCHANGED <<wr_timeout, wr_interval, wr_deadline, wr_last_poll, vars,
                   signer_vars, fn_vars, pm_vars>>

\* The steps of a running wait_for_receipt.
ReceiptStep ==
    \/ TestDeadline
    \/ \E answer \in BundlerAnswers, ticks \in 1..MaxPollTicks :
           Poll(answer, ticks)
    \/ Sleep

ReceiptNext ==
    \/ \E timeout \in TimeoutInputs, polling_interval \in IntervalInputs :
           WaitForReceipt(timeout, polling_interval)
    \/ ReceiptStep

ReceiptSpec ==
    /\ ModelInit
    /\ [][ReceiptNext]_all_vars

\* The calling thread keeps running, and every poll ends: the HTTP client
\* gives up after its timeout.
FairReceiptSpec == ReceiptSpec /\ WF_all_vars(ReceiptStep)

Polled == wr_last_poll # None

\* What the latest poll gave to wait_for_receipt.
LastReceipt == get_user_operation_receipt(wr_last_poll.answer)

TimedOut == wr_result = Raised(BundlerError("Timeout waiting"))

\* What holds of wait_for_receipt at every moment, whatever the timeout.
ReceiptOutcomes ==
    /\ Polled => BeforeDeadline(wr_last_poll.at, wr_deadline)
    /\ Polled /\ LastReceipt # Value(None)
         => wr_pc = "done" /\ wr_result = LastReceipt
    /\ wr_pc = "done" /\ (~Polled \/ LastReceipt = Value(None))
         => \/ TimedOut /\ ~BeforeDeadline(now, wr_deadline)
            \/ /\ Polled /\ wr_interval < 0
               /\ wr_result = Raised(OtherError("ValueError"))
    /\ wr_pc = "done" /\ wr_timeout # Infinity /\ wr_timeout.seconds <= 0
         => ~Polled /\ TimedOut

\* C20 as stated: every call of wait_for_receipt ends.
C20_AlwaysTerminates == (wr_pc # "idle") ~> (wr_pc = "done")

\* C20: every call of wait_for_receipt with a finite timeout ends.  Whatever
\* the timeout, a poll starts only while the deadline has not passed; the
\* first poll that gives a receipt ends the call, which returns that receipt;
\* a poll that raises (BundlerError or another exception) ends the call with
\* that exception and no further poll; otherwise the call raises BundlerError
\* once the deadline has passed, or the ValueError of sleeping a negative
\* interval; with timeout <= 0 it raises BundlerError without polling.
C20_FiniteWaitTerminates ==
    /\ []ReceiptOutcomes
    /\ (wr_pc # "idle" /\ wr_timeout # Infinity) ~> (wr_pc = "done")

\* A receipt came from a poll that was not the first.
C20_Witness ==
    /\ wr_pc = "done"
    /\ wr_timeout = Seconds(MaxTimeout)
    /\ Polled
    /\ wr_last_poll.at > 0
    /\ wr_result = Value(UserOperationReceipt("0xabc", 1))

====
